---- MODULE Spec2Model ----
(***************************************************************************)
(* Model of the transaction pipeline of modules/FinanceTracker.py:         *)
(* loading and combining the Wise and Revolut exports, data_check,         *)
(* add_month_column, total_amount, add_category_column, the two aggregate  *)
(* queries and save_monthly_data, driven by the handlers of app.py.        *)
(*                                                                         *)
(* A column keeps the name it has in the source.                           *)
(* Text is a sequence of one-character strings, so that str.lower(),       *)
(* str.upper() and the substring test act on characters.  A table cell is  *)
(* a record [kind, num, text]: kind "num" (a number, in num), "str" (text, *)
(* in text), "nan" (missing), "ts" (a timestamp, num = yyyymmdd), "nat"    *)
(* (missing timestamp or period), "period" (a month, num = yyyymm).        *)
(* Amounts are integers: the model does not cover floating-point rounding. *)
(***************************************************************************)
EXTENDS Integers, Sequences, FiniteSets, TLC

VARIABLES
    categories,   \* FinanceTracker.categories: sequence of [name, keywords], in dict order
    wise_csv,     \* the file at wise_csv_path
    revolut_csv,  \* the file at revolut_csv_path
    df,           \* FinanceTracker.df: sequence of rows
    df_columns,   \* FinanceTracker.df.columns
    dirExists,    \* whether the output directory of save_monthly_data exists
    files,        \* the partition files of the output directory: file name -> rows
    categoriesFile, \* the category JSON file at categories_path
    ret           \* the last operation run and what it returned or reported

vars == <<categories, wise_csv, revolut_csv, df, df_columns, dirExists, files, categoriesFile, ret>>

(***************************************************************************)
(* Bounds of the model.                                                    *)
(***************************************************************************)
MaxRows == 2      \* rows of the two source files together

(***************************************************************************)
(* Text.                                                                   *)
(***************************************************************************)
UpperLetters == <<"A","B","C","D","E","F","G","H","I","J","K","L","M",
                  "N","O","P","Q","R","S","T","U","V","W","X","Y","Z">>
LowerLetters == <<"a","b","c","d","e","f","g","h","i","j","k","l","m",
                  "n","o","p","q","r","s","t","u","v","w","x","y","z">>

LowerChar(c) ==
    IF \E i \in DOMAIN UpperLetters : UpperLetters[i] = c
    THEN LowerLetters[CHOOSE i \in DOMAIN UpperLetters : UpperLetters[i] = c]
    ELSE c

UpperChar(c) ==
    IF \E i \in DOMAIN LowerLetters : LowerLetters[i] = c
    THEN UpperLetters[CHOOSE i \in DOMAIN LowerLetters : LowerLetters[i] = c]
    ELSE c

\* str.lower()
Lower(s) == [i \in DOMAIN s |-> LowerChar(s[i])]

\* str.upper()
Upper(s) == [i \in DOMAIN s |-> UpperChar(s[i])]

\* Python's `k in s` on strings: k occurs in s as a contiguous substring
\* (the empty string occurs in every string).
Contains(s, k) ==
    \E i \in 0..(Len(s) - Len(k)) : \A j \in 1..Len(k) : s[i + j] = k[j]

Digits == <<"0","1","2","3","4","5","6","7","8","9">>

IsDigit(c) == \E i \in DOMAIN Digits : Digits[i] = c

DigitVal(c) == (CHOOSE i \in DOMAIN Digits : Digits[i] = c) - 1

AllDigits(s) == \A i \in DOMAIN s : IsDigit(s[i])

RECURSIVE DigitsVal(_)
DigitsVal(s) ==
    IF s = <<>> THEN 0
    ELSE 10 * DigitsVal(SubSeq(s, 1, Len(s) - 1)) + DigitVal(s[Len(s)])

DigitStr(n) == Digits[n + 1]

(***************************************************************************)
(* Cells.                                                                  *)
(***************************************************************************)
Num(n) == [kind |-> "num", num |-> n, text |-> <<>>]
Str(s) == [kind |-> "str", num |-> 0, text |-> s]
NaN == [kind |-> "nan", num |-> 0, text |-> <<>>]
NaT == [kind |-> "nat", num |-> 0, text |-> <<>>]
Timestamp(n) == [kind |-> "ts", num |-> n, text |-> <<>>]
Period(n) == [kind |-> "period", num |-> n, text |-> <<>>]

IsNull(c) == c.kind \in {"nan", "nat"}

\* Series.fillna(value)
FillNa(c, value) == IF IsNull(c) THEN value ELSE c

\* ToNumeric parsing text only: a number is not text and becomes NaN
ToNumericTextOnly(c) ==
    IF c.kind = "str" /\ c.text # <<>> /\ AllDigits(c.text)
        THEN Num(DigitsVal(c.text))
    ELSE IF c.kind = "str" /\ Len(c.text) > 1 /\ c.text[1] = "-" /\ AllDigits(Tail(c.text))
        THEN Num(0 - DigitsVal(Tail(c.text)))
    ELSE NaN

\* ToNumeric with errors='ignore': a cell that does not parse is returned as it is
ToNumericIgnore(c) ==
    IF c.kind = "num" THEN c
    ELSE IF c.kind = "str" /\ c.text # <<>> /\ AllDigits(c.text)
        THEN Num(DigitsVal(c.text))
    ELSE IF c.kind = "str" /\ Len(c.text) > 1 /\ c.text[1] = "-" /\ AllDigits(Tail(c.text))
        THEN Num(0 - DigitsVal(Tail(c.text)))
    ELSE c

\* pd.to_numeric(errors='coerce') on one cell: a number stays, text that is
\* an optionally signed run of digits parses, anything else becomes NaN.
ToNumeric(c) ==
    IF c.kind = "num" THEN c
    ELSE IF c.kind = "str" /\ c.text # <<>> /\ AllDigits(c.text)
        THEN Num(DigitsVal(c.text))
    ELSE IF c.kind = "str" /\ Len(c.text) > 1 /\ c.text[1] = "-" /\ AllDigits(Tail(c.text))
        THEN Num(0 - DigitsVal(Tail(c.text)))
    ELSE NaN

IsLeap(y) == (y % 4 = 0 /\ y % 100 # 0) \/ y % 400 = 0

DaysInMonth(y, m) ==
    IF m = 2 THEN (IF IsLeap(y) THEN 29 ELSE 28)
    ELSE IF m \in {4, 6, 9, 11} THEN 30 ELSE 31

\* ToDatetime with errors='ignore': a cell that does not parse is returned as it is
ToDatetimeIgnore(c) ==
    IF c.kind = "ts" THEN c
    ELSE IF /\ c.kind = "str"
            /\ Len(c.text) = 10
            /\ c.text[5] = "-" /\ c.text[8] = "-"
            /\ AllDigits(SubSeq(c.text, 1, 4))
            /\ AllDigits(SubSeq(c.text, 6, 7))
            /\ AllDigits(SubSeq(c.text, 9, 10))
        THEN LET y == DigitsVal(SubSeq(c.text, 1, 4))
                 m == DigitsVal(SubSeq(c.text, 6, 7))
                 d == DigitsVal(SubSeq(c.text, 9, 10))
             IN  IF y >= 1 /\ m \in 1..12 /\ d \in 1..DaysInMonth(y, m)
                 THEN Timestamp(y * 10000 + m * 100 + d)
                 ELSE c
    ELSE c

\* pd.to_datetime(errors='coerce') on one cell: a timestamp stays, text of
\* the form YYYY-MM-DD naming a calendar day parses, anything else is NaT.
ToDatetime(c) ==
    IF c.kind = "ts" THEN c
    ELSE IF /\ c.kind = "str"
            /\ Len(c.text) = 10
            /\ c.text[5] = "-" /\ c.text[8] = "-"
            /\ AllDigits(SubSeq(c.text, 1, 4))
            /\ AllDigits(SubSeq(c.text, 6, 7))
            /\ AllDigits(SubSeq(c.text, 9, 10))
        THEN LET y == DigitsVal(SubSeq(c.text, 1, 4))
                 m == DigitsVal(SubSeq(c.text, 6, 7))
                 d == DigitsVal(SubSeq(c.text, 9, 10))
             IN  IF y >= 1 /\ m \in 1..12 /\ d \in 1..DaysInMonth(y, m)
                 THEN Timestamp(y * 10000 + m * 100 + d)
                 ELSE NaT
    ELSE NaT

\* Series.dt.to_period('M') on one cell
ToPeriod(c) == IF c.kind = "ts" THEN Period(c.num \div 100) ELSE NaT

\* str(period) for a monthly period: "YYYY-MM", zero padded
PeriodStr(p) ==
    LET y == p.num \div 100
        m == p.num % 100
    IN  << DigitStr(y \div 1000), DigitStr((y \div 100) % 10),
           DigitStr((y \div 10) % 10), DigitStr(y % 10), "-",
           DigitStr(m \div 10), DigitStr(m % 10) >>

(***************************************************************************)
(* Categorizer.                                                            *)
(***************************************************************************)
Others == <<"O","t","h","e","r","s">>

Keys(store) == {store[i].name : i \in DOMAIN store}

\* Matches with the case of the description kept
MatchesCaseSensitive(category, description) ==
    \E k \in DOMAIN category.keywords :
        Contains(description, Lower(category.keywords[k]))

\* a category of the store has a keyword whose lower-casing occurs in the
\* lower-cased description
Matches(category, description) ==
    \E k \in DOMAIN category.keywords :
        Contains(Lower(description), Lower(category.keywords[k]))

\* FinanceTracker.categorize_expense: the loops return at the first hit
RECURSIVE CategorizeFrom(_, _, _)
CategorizeFrom(store, i, description) ==
    IF i > Len(store) THEN Others
    ELSE IF Matches(store[i], description) THEN store[i].name
    ELSE CategorizeFrom(store, i + 1, description)

categorize_expense(store, description) == CategorizeFrom(store, 1, description)

(***************************************************************************)
(* Tables.  A row is a function from column names to cells and a frame is  *)
(* a record [columns, rows]: the columns are kept apart from the rows      *)
(* because a frame without rows still has columns.                         *)
(***************************************************************************)
\* unified_columns of _load_and_combine_data
unified_columns ==
    { "Transaction ID", "Status", "Type", "Started Date", "Completed Date",
      "Description", "Amount", "Fee", "Currency", "State", "Balance",
      "Target Amount", "Target Currency", "Exchange Rate",
      "Reference", "Batch", "Created By", "Product", "Target Fee",
      "Target Fee Currency", "Source Platform" }

\* pd.DataFrame()
EmptyFrame == [columns |-> {}, rows |-> <<>>]

\* df[col] = value for each column of cols that the row does not have
WithColumns(r, cols, value) ==
    [c \in (DOMAIN r) \cup cols |-> IF c \in DOMAIN r THEN r[c] ELSE value]

\* df[col] = None for each column of cols that the frame does not have
AddColumns(frame, cols) ==
    [ columns |-> frame.columns \cup cols,
      rows |-> [i \in DOMAIN frame.rows |-> WithColumns(frame.rows[i], cols, NaN)] ]

\* Concat with the rows of b before the rows of a
ConcatReversed(a, b) ==
    [ columns |-> a.columns \cup b.columns,
      rows |-> AddColumns(b, a.columns).rows \o AddColumns(a, b.columns).rows ]

\* pd.concat([a, b], ignore_index=True, sort=False): the rows of a, then the
\* rows of b, over the columns of both; a column a frame lacks is NaN in its rows
Concat(a, b) ==
    [ columns |-> a.columns \cup b.columns,
      rows |-> AddColumns(a, b.columns).rows \o AddColumns(b, a.columns).rows ]

\* Unified without the projection: the row with every column it has
UnifiedKeepAll(r) == r

\* combined_df[unified_columns] on one row
Unified(r) == [c \in unified_columns |-> r[c]]

(***************************************************************************)
(* Source files and adapters.                                              *)
(***************************************************************************)
\* a CSV file with a header and rows
CsvFile(cols, rows) == [status |-> "ok", columns |-> cols, rows |-> rows]
\* no file at the path: pd.read_csv raises FileNotFoundError
MissingCsv == [status |-> "missing", columns |-> {}, rows |-> <<>>]
\* a file that pd.read_csv cannot tokenize: pd.errors.ParserError
UnparsableCsv == [status |-> "unparsable", columns |-> {}, rows |-> <<>>]
\* a file of zero bytes: pd.read_csv raises pd.errors.EmptyDataError
ZeroByteCsv == [status |-> "zero_bytes", columns |-> {}, rows |-> <<>>]

\* utilities.load_expenses: the frame read; None after FileNotFoundError or
\* ParserError, which it catches; any other exception of read_csv is raised
load_expenses(file) ==
    IF file.status = "ok"
        THEN [result |-> "frame", columns |-> file.columns, rows |-> file.rows]
    ELSE IF file.status \in {"missing", "unparsable"}
        THEN [result |-> "None", columns |-> {}, rows |-> <<>>]
    ELSE [result |-> "raised", columns |-> {}, rows |-> <<>>]

\* the rename map of _load_wise_data
wise_rename ==
    << <<"ID", "Transaction ID">>,
       <<"Status", "Status">>,
       <<"Direction", "Type">>,
       <<"Created on", "Started Date">>,
       <<"Finished on", "Completed Date">>,
       <<"Source fee amount", "Fee">>,
       <<"Source fee currency", "Fee Currency">>,
       <<"Target fee amount", "Target Fee">>,
       <<"Target fee currency", "Target Fee Currency">>,
       <<"Source name", "Source">>,
       <<"Source amount (after fees)", "Amount">>,
       <<"Source currency", "Currency">>,
       <<"Target name", "Description">>,
       <<"Target amount (after fees)", "Target Amount">>,
       <<"Target currency", "Target Currency">>,
       <<"Exchange rate", "Exchange Rate">>,
       <<"Reference", "Reference">>,
       <<"Batch", "Batch">>,
       <<"Created by", "Created By">> >>

\* the rename map of _load_revolut_data: every name maps to itself
revolut_rename ==
    << <<"Type", "Type">>,
       <<"Product", "Product">>,
       <<"Started Date", "Started Date">>,
       <<"Completed Date", "Completed Date">>,
       <<"Description", "Description">>,
       <<"Amount", "Amount">>,
       <<"Fee", "Fee">>,
       <<"Currency", "Currency">>,
       <<"State", "State">>,
       <<"Balance", "Balance">> >>

\* the name of column c after DataFrame.rename(columns=map): a column that
\* the map does not name keeps its name
Renamed(map, c) ==
    IF \E i \in DOMAIN map : map[i][1] = c
    THEN map[CHOOSE i \in DOMAIN map : map[i][1] = c][2]
    ELSE c

\* DataFrame.rename(columns=map, inplace=True)
Rename(frame, map) ==
    [ columns |-> {Renamed(map, c) : c \in frame.columns},
      rows |-> [ i \in DOMAIN frame.rows |->
                   [ n \in {Renamed(map, c) : c \in frame.columns} |->
                       frame.rows[i][CHOOSE c \in frame.columns : Renamed(map, c) = n] ] ] ]

Wise == <<"W","i","s","e">>
Revolut == <<"R","e","v","o","l","u","t">>

\* Stamp leaving the platform cell empty
StampNull(frame, platform) ==
    [ columns |-> frame.columns \cup {"Source Platform"},
      rows |-> [ i \in DOMAIN frame.rows |->
                   [ c \in frame.columns \cup {"Source Platform"} |->
                       IF c = "Source Platform" THEN NaN ELSE frame.rows[i][c] ] ] ]

\* df['Source Platform'] = platform
Stamp(frame, platform) ==
    [ columns |-> frame.columns \cup {"Source Platform"},
      rows |-> [ i \in DOMAIN frame.rows |->
                   [ c \in frame.columns \cup {"Source Platform"} |->
                       IF c = "Source Platform" THEN Str(platform)
                       ELSE frame.rows[i][c] ] ] ]

\* the body of both adapters: load_expenses(...).empty raises AttributeError
\* on None, and `except Exception` turns that and whatever load_expenses
\* raised into pd.DataFrame(); a frame without rows gives pd.DataFrame() too
LoadPlatform(file, map, platform) ==
    LET loaded == load_expenses(file)
    IN  IF loaded.result # "frame" THEN EmptyFrame
        ELSE IF loaded.rows = <<>> \/ loaded.columns = {} THEN EmptyFrame
        ELSE Stamp(Rename([columns |-> loaded.columns, rows |-> loaded.rows], map),
                   platform)

\* what an adapter prints about its load: "Error loading ... data",
\* "... CSV is empty or not loaded correctly" or "... data loaded and standardized"
LoadMessage(file) ==
    LET loaded == load_expenses(file)
    IN  IF loaded.result # "frame" THEN "error"
        ELSE IF loaded.rows = <<>> \/ loaded.columns = {} THEN "empty"
        ELSE "loaded"

\* FinanceTracker._load_wise_data
_load_wise_data(file) == LoadPlatform(file, wise_rename, Wise)

\* FinanceTracker._load_revolut_data
_load_revolut_data(file) == LoadPlatform(file, revolut_rename, Revolut)

\* _load_and_combine_data giving up when one of the two adapters returns
\* no rows
CombineAllOrNothing(wise_file, revolut_file) ==
    LET df_revolut == AddColumns(LoadPlatform(revolut_file, revolut_rename, Revolut),
                                 unified_columns)
        df_wise == AddColumns(LoadPlatform(wise_file, wise_rename, Wise), unified_columns)
        combined_df == Concat(df_wise, df_revolut)
    IN  [ columns |-> unified_columns,
          rows |-> IF df_wise.rows = <<>> \/ df_revolut.rows = <<>> THEN <<>>
                   ELSE [i \in DOMAIN combined_df.rows |-> Unified(combined_df.rows[i])] ]

\* FinanceTracker._load_and_combine_data: the missing unified columns are
\* added to each frame, the Wise frame is concatenated before the Revolut
\* frame and the result is projected on unified_columns
_load_and_combine_data(wise_file, revolut_file) ==
    LET df_revolut == AddColumns(_load_revolut_data(revolut_file), unified_columns)
        df_wise == AddColumns(_load_wise_data(wise_file), unified_columns)
        combined_df == Concat(df_wise, df_revolut)
    IN  [ columns |-> unified_columns,
          rows |-> [i \in DOMAIN combined_df.rows |-> Unified(combined_df.rows[i])] ]

(***************************************************************************)
(* The process pass, row by row.                                           *)
(***************************************************************************)
EmptyText == Str(<<>>)

\* required_columns of data_check: the same list as unified_columns
required_columns == unified_columns

\* the columns that data_check fills with ''
text_columns ==
    { "Transaction ID", "Status", "Type", "Started Date", "Completed Date",
      "Description", "State", "Reference", "Batch", "Created By", "Product" }

\* the columns that data_check parses with pd.to_numeric and fills with 0.0
numeric_columns == { "Amount", "Fee", "Balance", "Target Amount", "Target Fee" }

\* the columns that data_check fills with base_currency
currency_columns == { "Currency", "Target Currency", "Target Fee Currency" }

base_currency == <<"E","U","R">>

Unknown == <<"U","n","k","n","o","w","n">>

\* DataCheckRow filling every required column with ''
DataCheckRowAllEmpty(r) ==
    LET full == WithColumns(r, required_columns, EmptyText)
    IN  [ c \in DOMAIN full |->
            IF c \in numeric_columns THEN FillNa(ToNumeric(full[c]), EmptyText)
            ELSE IF c \in required_columns THEN FillNa(full[c], EmptyText)
            ELSE full[c] ]

\* FinanceTracker.data_check on one row: a required column that is absent is
\* created holding '', then every required column is filled
DataCheckRow(r) ==
    LET full == WithColumns(r, required_columns, EmptyText)
    IN  [ c \in DOMAIN full |->
            IF c \in text_columns THEN FillNa(full[c], EmptyText)
            ELSE IF c \in numeric_columns THEN FillNa(ToNumeric(full[c]), Num(0))
            ELSE IF c \in currency_columns THEN FillNa(full[c], Str(base_currency))
            ELSE IF c = "Exchange Rate" THEN FillNa(full[c], Num(1))
            ELSE IF c = "Source Platform" THEN FillNa(full[c], Str(Unknown))
            ELSE full[c] ]

\* the columns of the table after data_check
data_check_columns(cols) == cols \cup required_columns

\* FinanceTracker.data_check over the rows of the table
data_check(table) == [i \in DOMAIN table |-> DataCheckRow(table[i])]

\* FinanceTracker.add_month_column on one row
AddMonthRow(r) ==
    IF "Started Date" \notin DOMAIN r THEN r
    ELSE LET started == [r EXCEPT !["Started Date"] = ToDatetime(@)]
         IN  IF "Completed Date" \notin DOMAIN r THEN started
             ELSE LET completed == [started EXCEPT !["Completed Date"] = ToDatetime(@)]
                  IN  [ c \in (DOMAIN r) \cup {"Year_Month"} |->
                          IF c = "Year_Month" THEN ToPeriod(completed["Completed Date"])
                          ELSE completed[c] ]

\* FinanceTracker.total_amount on one row
TotalAmountRow(r) ==
    [ c \in (DOMAIN r) \cup {"Amount in EUR"} |->
        IF c = "Amount in EUR" THEN FillNa(r.Amount, Num(0)) ELSE r[c] ]

\* AddCategoryRow keeping a category that the row already has, unless it is
\* the sentinel
AddCategoryRowKeepManual(r, store) ==
    IF "Description" \notin DOMAIN r THEN r
    ELSE [ c \in (DOMAIN r) \cup {"Category"} |->
             IF c = "Category"
             THEN IF "Category" \in DOMAIN r /\ r.Category # Others
                  THEN r.Category
                  ELSE categorize_expense(store, r.Description.text)
             ELSE r[c] ]

\* FinanceTracker.add_category_column on one row
AddCategoryRow(r, store) ==
    IF "Description" \notin DOMAIN r THEN r
    ELSE [ c \in (DOMAIN r) \cup {"Category"} |->
             IF c = "Category" THEN categorize_expense(store, r.Description.text)
             ELSE r[c] ]

\* FinanceTracker.process_data: data_check, add_month_column, total_amount,
\* add_category_column, each over the whole table
process_data(table, store) ==
    [ i \in DOMAIN table |->
        AddCategoryRow(TotalAmountRow(AddMonthRow(DataCheckRow(table[i]))), store) ]

\* the columns of the table after process_data
process_data_columns(cols) ==
    cols \cup required_columns \cup {"Year_Month", "Amount in EUR", "Category"}

(***************************************************************************)
(* Aggregator.                                                             *)
(***************************************************************************)
income_types ==
    { <<"I","N">>, <<"D","E","P","O","S","I","T">>,
      <<"R","E","F","U","N","D">>, <<"I","N","C","O","M","E">> }

expense_types ==
    { <<"O","U","T">>, <<"W","I","T","H","D","R","A","W","A","L">>,
      <<"P","A","Y","M","E","N","T">>, <<"E","X","P","E","N","S","E">> }

\* TypeIsIn without str.upper()
TypeIsInCaseSensitive(r, types) == r.Type.text \in types

\* df['Type'].str.upper().isin(types) on one row
TypeIsIn(r, types) == Upper(r.Type.text) \in types

\* RowsOfTypes keeping also the rows of unrecognised type
RowsOfTypesOrUnrecognised(table, types) ==
    SelectSeq(table, LAMBDA r :
        TypeIsIn(r, types) \/ ~TypeIsIn(r, income_types \cup expense_types))

\* df[df['Type'].str.upper().isin(types)]
RowsOfTypes(table, types) == SelectSeq(table, LAMBDA r : TypeIsIn(r, types))

\* MonthsOf with a group for the records whose month is null
MonthsOfWithNull(table) == {table[i].Year_Month : i \in DOMAIN table}

\* the group keys of groupby('Year_Month'): a missing key forms no group
MonthsOf(table) ==
    {table[i].Year_Month : i \in {j \in DOMAIN table : ~IsNull(table[j].Year_Month)}}

\* the categories of the rows that groupby(['Year_Month', 'Category']) keeps
CategoriesOf(table) ==
    {table[i].Category : i \in {j \in DOMAIN table : ~IsNull(table[j].Year_Month)}}

\* sum of the amount column over the rows of a sequence
RECURSIVE SumAmount(_)
SumAmount(rows) ==
    IF rows = <<>> THEN 0 ELSE Head(rows)["Amount in EUR"].num + SumAmount(Tail(rows))

\* groupby('Year_Month')[amount].sum(): month -> sum
SumByMonth(table) ==
    [ p \in MonthsOf(table) |->
        SumAmount(SelectSeq(table, LAMBDA r : r.Year_Month = p)) ]

\* Series.subtract without fill_value, followed by dropna: only the labels
\* of both sides keep a value
SeriesSubtractNoFill(a, b) ==
    [ p \in (DOMAIN a) \cap (DOMAIN b) |-> a[p] - b[p] ]

\* Series.subtract(other, fill_value=0): the union of the two indexes, a
\* label missing on one side counting as 0 there
SeriesSubtract(a, b) ==
    [ p \in (DOMAIN a) \cup (DOMAIN b) |->
        (IF p \in DOMAIN a THEN a[p] ELSE 0) - (IF p \in DOMAIN b THEN b[p] ELSE 0) ]

\* net.index.astype(str): the series keyed by str(period)
SeriesIndexAsStr(a) ==
    [ k \in {PeriodStr(p) : p \in DOMAIN a} |->
        a[CHOOSE p \in DOMAIN a : PeriodStr(p) = k] ]

\* FinanceTracker.net_amount_per_month
net_amount_per_month(table) ==
    LET incomes == SumByMonth(RowsOfTypes(table, income_types))
        expenses == SumByMonth(RowsOfTypes(table, expense_types))
    IN  SeriesIndexAsStr(SeriesSubtract(incomes, expenses))

\* groupby(['Year_Month', 'Category'])[amount].sum().unstack().fillna(0):
\* rows are the months and columns the categories of the groups; a cell
\* without a group is NaN after unstack and 0 after fillna
Pivot(table) ==
    [ index |-> MonthsOf(table),
      columns |-> CategoriesOf(table),
      cell |-> [ k \in MonthsOf(table) \X CategoriesOf(table) |->
                   LET group == SelectSeq(table,
                                   LAMBDA r : r.Year_Month = k[1] /\ r.Category = k[2])
                   IN  FillNa(IF group = <<>> THEN NaN ELSE Num(SumAmount(group)),
                              Num(0)).num ] ]

\* one cell of a frame aligned to a larger index and columns: NaN outside it
Aligned(pivot, p, c) ==
    IF p \in pivot.index /\ c \in pivot.columns THEN Num(pivot.cell[<<p, c>>]) ELSE NaN

\* DataFrame.subtract without fill_value: a cell missing on a side is NaN
FrameSubtractNoFill(a, b) ==
    [ index |-> a.index \cup b.index,
      columns |-> a.columns \cup b.columns,
      cell |-> [ k \in (a.index \cup b.index) \X (a.columns \cup b.columns) |->
                   LET x == Aligned(a, k[1], k[2])
                       y == Aligned(b, k[1], k[2])
                   IN  IF IsNull(x) \/ IsNull(y) THEN NaN
                       ELSE Num(x.num - y.num) ] ]

\* DataFrame.subtract(other, fill_value=0): the union of the indexes and of
\* the columns; a cell missing on one side counts as 0 there, a cell missing
\* on both sides stays NaN
FrameSubtract(a, b) ==
    [ index |-> a.index \cup b.index,
      columns |-> a.columns \cup b.columns,
      cell |-> [ k \in (a.index \cup b.index) \X (a.columns \cup b.columns) |->
                   LET x == Aligned(a, k[1], k[2])
                       y == Aligned(b, k[1], k[2])
                   IN  IF IsNull(x) /\ IsNull(y) THEN NaN
                       ELSE Num(FillNa(x, Num(0)).num - FillNa(y, Num(0)).num) ] ]

\* the lambda of applymap without the clamp: -x
NetExpenseCellUnclamped(x) == IF IsNull(x) THEN 0 ELSE 0 - x.num

\* the lambda of applymap: -x if x < 0 else 0 (a comparison with NaN is false)
NetExpenseCell(x) == IF ~IsNull(x) /\ x.num < 0 THEN 0 - x.num ELSE 0

\* net_pivot.index.astype(str) and net_pivot.applymap(lambda)
NetPivot(frame) ==
    [ index |-> {PeriodStr(p) : p \in frame.index},
      columns |-> frame.columns,
      cell |-> [ k \in {PeriodStr(p) : p \in frame.index} \X frame.columns |->
                   NetExpenseCell(
                       frame.cell[<<CHOOSE p \in frame.index : PeriodStr(p) = k[1], k[2]>>]) ] ]

\* FinanceTracker.expenses_per_category_per_month
expenses_per_category_per_month(table) ==
    LET expenses_pivot == Pivot(RowsOfTypes(table, expense_types))
        incomes_pivot == Pivot(RowsOfTypes(table, income_types))
    IN  [ expenses |-> expenses_pivot,
          incomes |-> incomes_pivot,
          net |-> NetPivot(FrameSubtract(incomes_pivot, expenses_pivot)) ]

(***************************************************************************)
(* Monthly exporter.                                                       *)
(***************************************************************************)
\* f"{period_str}.csv"
FileName(p) == PeriodStr(p) \o <<".","c","s","v">>

\* GroupOf writing the whole table instead of the group
GroupOfWholeTable(table, p) == table

\* the group of one period of df.groupby('Year_Month'), in table order
GroupOf(table, p) == SelectSeq(table, LAMBDA r : r.Year_Month = p)

\* the periods whose file the loop of save_monthly_data skips
SkippedPeriods(dir, table) == {p \in MonthsOf(table) : FileName(p) \in DOMAIN dir}

\* save_monthly_data without the os.path.exists test: every group is written
save_monthly_data_overwrite(dir, table) ==
    [ f \in (DOMAIN dir) \cup {FileName(p) : p \in MonthsOf(table)} |->
        IF \E p \in MonthsOf(table) : FileName(p) = f
        THEN GroupOf(table, CHOOSE p \in MonthsOf(table) : FileName(p) = f)
        ELSE dir[f] ]

\* save_monthly_data appending a group to the file that exists
save_monthly_data_append(dir, table) ==
    [ f \in (DOMAIN dir) \cup {FileName(p) : p \in MonthsOf(table)} |->
        (IF f \in DOMAIN dir THEN dir[f] ELSE <<>>)
        \o (IF \E p \in MonthsOf(table) : FileName(p) = f
            THEN GroupOf(table, CHOOSE p \in MonthsOf(table) : FileName(p) = f)
            ELSE <<>>) ]

\* the loop of FinanceTracker.save_monthly_data: a group whose file exists is
\* skipped, any other group is written to its file
save_monthly_data(dir, table) ==
    [ f \in (DOMAIN dir) \cup {FileName(p) : p \in MonthsOf(table)} |->
        IF f \in DOMAIN dir THEN dir[f]
        ELSE GroupOf(table, CHOOSE p \in MonthsOf(table) : FileName(p) = f) ]

(***************************************************************************)
(* Category file.                                                          *)
(***************************************************************************)
JsonFile(store) == [status |-> "ok", json |-> store]
MissingFile == [status |-> "missing", json |-> <<>>]
MalformedFile == [status |-> "malformed", json |-> <<>>]

\* _load_categories falling back on a built-in mapping
LoadCategoriesOrDefault(file) ==
    IF file.status = "ok" THEN file.json
    ELSE << [name |-> <<"G">>, keywords |-> << <<"r">> >>] >>

\* FinanceTracker._load_categories: a missing or malformed file gives {}
_load_categories(file) == IF file.status = "ok" THEN file.json ELSE <<>>

\* FinanceTracker.save_categories: json.dump of the whole mapping
save_categories(store) == JsonFile(store)

(***************************************************************************)
(* Form input of the category handlers of app.py.                          *)
(***************************************************************************)
IsSpace(c) == c \in {" "}

\* str.strip()
RECURSIVE Strip(_)
Strip(s) ==
    IF s = <<>> THEN s
    ELSE IF IsSpace(Head(s)) THEN Strip(Tail(s))
    ELSE IF IsSpace(s[Len(s)]) THEN Strip(SubSeq(s, 1, Len(s) - 1))
    ELSE s

\* [kw.strip().lower() for kw in text.split('\n') if kw.strip() != ""]
RECURSIVE KeywordsOfLines(_)
KeywordsOfLines(lines) ==
    IF lines = <<>> THEN <<>>
    ELSE (IF Strip(Head(lines)) # <<>> THEN <<Lower(Strip(Head(lines)))>> ELSE <<>>)
         \o KeywordsOfLines(Tail(lines))

InSeq(x, seq) == \E i \in DOMAIN seq : seq[i] = x

IndexOfKey(store, name) == CHOOSE i \in DOMAIN store : store[i].name = name

\* list.remove(x): drops the first occurrence
RemoveFirst(seq, x) ==
    LET i == CHOOSE j \in DOMAIN seq : seq[j] = x /\ \A h \in 1..(j - 1) : seq[h] # x
    IN  SubSeq(seq, 1, i - 1) \o SubSeq(seq, i + 1, Len(seq))

\* the loop of the add_keywords_form: appends each keyword not yet in the list
RECURSIVE AppendNew(_, _)
AppendNew(list, kws) ==
    IF kws = <<>> THEN list
    ELSE AppendNew(IF InSeq(Head(kws), list) THEN list ELSE Append(list, Head(kws)),
                   Tail(kws))

(***************************************************************************)
(* What an operation returns or reports.                                   *)
(***************************************************************************)
EmptyPivot == [index |-> {}, columns |-> {}, cell |-> <<>>]

Return(op) ==
    [ op |-> op,
      net |-> <<>>,
      pivots |-> [expenses |-> EmptyPivot, incomes |-> EmptyPivot, net |-> EmptyPivot],
      written |-> {},
      skipped |-> {},
      missing |-> {},
      messages |-> <<>>,
      input |-> EmptyFrame ]

(***************************************************************************)
(* Inputs: the texts, source rows, category files and form inputs the      *)
(* behaviours are drawn from.                                              *)
(***************************************************************************)
Jan15 == <<"2","0","2","4","-","0","1","-","1","5">>
Feb03 == <<"2","0","2","4","-","0","2","-","0","3">>
TextMr == <<"M","r">>
TextR == <<"r">>
TypeIN == <<"I","N">>
TypeOUT == <<"O","U","T">>
TypeOut == <<"o","u","t">>
TypeIn == <<"I","n">>
TypeNEUTRAL == <<"N","E","U","T","R","A","L">>
TypePayment == <<"P","a","y","m","e","n","t">>
TypeDEPOSIT == <<"D","E","P","O","S","I","T">>
TypeTRANSFER == <<"T","R","A","N","S","F","E","R">>
NameG == <<"G">>
NameR == <<"R">>

TextLocalMarketPurchase ==
    <<"L","o","c","a","l"," ","M","a","r","k","e","t"," ",
      "P","u","r","c","h","a","s","e">>
TextLANDLORD == <<"L","A","N","D","L","O","R","D">>
KeywordMarket == <<"m","a","r","k","e","t">>
KeywordLandlord == <<"l","a","n","d","l","o","r","d">>
NameGroceries == <<"G","r","o","c","e","r","i","e","s">>
NameRent == <<"R","e","n","t">>

\* the header of a Wise export
wise_csv_columns == {wise_rename[i][1] : i \in DOMAIN wise_rename}

\* the header of a Revolut export
revolut_csv_columns == {revolut_rename[i][1] : i \in DOMAIN revolut_rename}

\* a row of a Wise export: the four given cells, the other cells empty
WiseRow(type, date, description, amount) ==
    [ c \in wise_csv_columns |->
        IF c = "Direction" THEN type
        ELSE IF c = "Finished on" THEN date
        ELSE IF c = "Target name" THEN description
        ELSE IF c = "Source amount (after fees)" THEN amount
        ELSE NaN ]

\* a row of a Revolut export: the four given cells, the other cells empty
RevolutRow(type, date, description, amount) ==
    [ c \in revolut_csv_columns |->
        IF c = "Type" THEN type
        ELSE IF c = "Completed Date" THEN date
        ELSE IF c = "Description" THEN description
        ELSE IF c = "Amount" THEN amount
        ELSE NaN ]

SeqsUpTo(S, n) == UNION {[1..k -> S] : k \in 0..n}

\* the source files of the whole-program specification
WiseRows ==
    { WiseRow(Str(TypeOUT), Str(Jan15), Str(TextMr), Num(5)),
      WiseRow(Str(TypeIn), Str(Feb03), Str(TextR), Num(3)),
      WiseRow(NaN, NaN, NaN, NaN) }

RevolutRows ==
    { RevolutRow(Str(TypePayment), Str(Feb03), Str(TextMr), Num(0 - 2)),
      RevolutRow(Str(TypeTRANSFER), Str(Jan15), Str(TextR), Num(4)) }

\* the category files found at start-up
CategoryFiles ==
    { MissingFile, MalformedFile,
      JsonFile(<< [name |-> NameG, keywords |-> <<<<"m">>>>],
                  [name |-> NameR, keywords |-> <<<<"R">>>>] >>) }

\* the source files and the category file of the aggregator specification:
\* the store {"Groceries": ["market"], "Rent": ["landlord"]}, Wise rows of
\* direction IN, OUT and NEUTRAL and Revolut rows of mixed-case and
\* unrecognised types, with negative and missing amounts and missing dates
AggWiseRows ==
    { WiseRow(Str(t), Str(d), Str(x), Num(50)) :
        t \in {TypeIN, TypeOUT, TypeNEUTRAL}, d \in {Jan15, Feb03},
        x \in {TextLocalMarketPurchase, TextLANDLORD} }

AggRevolutRows ==
    { RevolutRow(Str(t), d, x, a) :
        t \in {TypePayment, TypeDEPOSIT, TypeTRANSFER}, d \in {Str(Jan15), NaN},
        x \in {Str(TextLocalMarketPurchase), NaN}, a \in {Num(0 - 20), NaN} }

AggCategoryFiles ==
    { JsonFile(<< [name |-> NameGroceries, keywords |-> <<KeywordMarket>>],
                  [name |-> NameRent, keywords |-> <<KeywordLandlord>>] >>) }

AggDirectories == { [exists |-> FALSE, files |-> <<>>] }

\* the output directory found at start-up: absent, or left by an earlier
\* session with a partition file for January 2024 holding no rows
Directories ==
    { [exists |-> FALSE, files |-> <<>>],
      [exists |-> TRUE, files |-> [f \in {FileName(Period(202401))} |-> <<>>]] }

\* what the user types into the category forms
NameInputs == { <<" ">>, NameG }
KeywordInputs == { <<" ">>, <<"M">> }
LinesInputs == { <<>>, << <<" ">>, <<"M"," ">> >> }

(***************************************************************************)
(* Initial state: FinanceTracker.__init__ has loaded the category file,    *)
(* loaded and combined the two source files and run process_data.          *)
(***************************************************************************)
\* FinanceTracker.__init__ with the given files at the three paths and the
\* given output directory: _load_categories, _load_and_combine_data and
\* process_data; ret keeps the combined table and what the adapters printed
Construct(wise_file, revolut_file, category_file, directory) ==
    LET combined_df == _load_and_combine_data(wise_file, revolut_file)
    IN  /\ categoriesFile = category_file
        /\ categories = _load_categories(category_file)
        /\ wise_csv = wise_file
        /\ revolut_csv = revolut_file
        /\ df = process_data(combined_df.rows, _load_categories(category_file))
        /\ df_columns = process_data_columns(combined_df.columns)
        /\ dirExists = directory.exists
        /\ files = directory.files
        /\ ret = [Return("process") EXCEPT
                     !.input = combined_df,
                     !.messages = <<LoadMessage(wise_file), LoadMessage(revolut_file)>>]

InitWith(wiseRows, revolutRows, categoryFiles, directories) ==
    \E f \in categoryFiles, d \in directories, w \in SeqsUpTo(wiseRows, MaxRows) :
      \E v \in SeqsUpTo(revolutRows, MaxRows - Len(w)) :
        Construct(CsvFile(wise_csv_columns, w), CsvFile(revolut_csv_columns, v), f, d)

Init == InitWith(WiseRows, RevolutRows, CategoryFiles, Directories)

(***************************************************************************)
(* Operations of the tracker.                                              *)
(***************************************************************************)
\* tracker.data_check(); ret keeps the table the call was made on
DataCheck ==
    /\ df' = data_check(df)
    /\ df_columns' = data_check_columns(df_columns)
    /\ ret' = [Return("data_check") EXCEPT !.input = [columns |-> df_columns, rows |-> df]]
    /\ UNCHANGED <<categories, wise_csv, revolut_csv, dirExists, files, categoriesFile>>

\* tracker.process_data(); ret keeps the table the call was made on
ProcessData ==
    /\ df' = process_data(df, categories)
    /\ df_columns' = process_data_columns(df_columns)
    /\ ret' = [Return("process") EXCEPT !.input = [columns |-> df_columns, rows |-> df]]
    /\ UNCHANGED <<categories, wise_csv, revolut_csv, dirExists, files, categoriesFile>>

\* MissingColumns listing every required column when one is missing
MissingColumnsAll(required, cols) ==
    IF required \subseteq cols THEN {} ELSE required

\* required_columns - set(self.df.columns)
MissingColumns(required, cols) == required \ cols

\* NetAmountPerMonth keeping in the table only the records it summed
NetAmountPerMonthInPlace ==
    /\ LET missing == MissingColumns({"Year_Month", "Amount in EUR", "Type"}, df_columns)
       IN  /\ ret' = IF missing # {}
                     THEN [Return("net") EXCEPT !.missing = missing]
                     ELSE [Return("net") EXCEPT !.net = net_amount_per_month(df)]
           /\ df' = IF missing # {} THEN df
                    ELSE RowsOfTypes(df, income_types \cup expense_types)
    /\ UNCHANGED <<categories, wise_csv, revolut_csv, df_columns, dirExists, files, categoriesFile>>

\* tracker.net_amount_per_month(), as show_dashboard calls it: the method
\* raises ValueError naming the missing columns when the table lacks one,
\* and show_dashboard then shows the error and goes on with an empty series
NetAmountPerMonth ==
    /\ LET missing == MissingColumns({"Year_Month", "Amount in EUR", "Type"}, df_columns)
       IN  ret' = IF missing # {}
                  THEN [Return("net") EXCEPT !.missing = missing]
                  ELSE [Return("net") EXCEPT !.net = net_amount_per_month(df)]
    /\ UNCHANGED <<categories, wise_csv, revolut_csv, df, df_columns, dirExists, files, categoriesFile>>

\* tracker.expenses_per_category_per_month(), as show_dashboard calls it:
\* the method raises ValueError naming the missing columns when the table
\* lacks one, and show_dashboard then goes on with three empty frames
ExpensesPerCategoryPerMonth ==
    /\ LET missing == MissingColumns({"Year_Month", "Category", "Amount in EUR", "Type"},
                                     df_columns)
       IN  ret' = IF missing # {}
                  THEN [Return("pivots") EXCEPT !.missing = missing]
                  ELSE [Return("pivots") EXCEPT
                          !.pivots = expenses_per_category_per_month(df)]
    /\ UNCHANGED <<categories, wise_csv, revolut_csv, df, df_columns, dirExists, files, categoriesFile>>

\* tracker.save_monthly_data(output_dir): os.makedirs, then the loop
SaveMonthlyData ==
    /\ dirExists' = TRUE
    /\ files' = save_monthly_data(files, df)
    /\ ret' = [Return("export") EXCEPT
                 !.skipped = {FileName(p) : p \in SkippedPeriods(files, df)},
                 !.written = {FileName(p) : p \in MonthsOf(df) \ SkippedPeriods(files, df)}]
    /\ UNCHANGED <<categories, wise_csv, revolut_csv, df, df_columns, categoriesFile>>

\* the user edits a partition file by hand, outside the program: here the
\* rows of the file are deleted
ManualEdit(f) ==
    /\ f \in DOMAIN files
    /\ files[f] # <<>>
    /\ files' = [files EXCEPT ![f] = <<>>]
    /\ ret' = Return("manual_edit")
    /\ UNCHANGED <<categories, wise_csv, revolut_csv, df, df_columns, dirExists, categoriesFile>>

(***************************************************************************)
(* Category management handlers of app.py: each mutation is followed by    *)
(* save_categories and process_data.                                       *)
(***************************************************************************)
\* Mutate without the process pass
MutateWithoutProcess(store) ==
    /\ categories' = store
    /\ categoriesFile' = save_categories(store)
    /\ ret' = Return("process")
    /\ UNCHANGED <<wise_csv, revolut_csv, df, df_columns, dirExists, files>>

\* Mutate without save_categories
MutateWithoutSave(store) ==
    /\ categories' = store
    /\ df' = process_data(df, store)
    /\ df_columns' = process_data_columns(df_columns)
    /\ ret' = Return("process")
    /\ UNCHANGED <<wise_csv, revolut_csv, dirExists, files, categoriesFile>>

\* the mutation, tracker.save_categories() and tracker.process_data()
Mutate(store) ==
    /\ categories' = store
    /\ categoriesFile' = save_categories(store)
    /\ df' = process_data(df, store)
    /\ df_columns' = process_data_columns(df_columns)
    /\ ret' = Return("process")
    /\ UNCHANGED <<wise_csv, revolut_csv, dirExists, files>>

\* st.error(...): the handler reports and changes nothing
Reject ==
    /\ ret' = Return("rejected")
    /\ UNCHANGED <<categories, wise_csv, revolut_csv, df, df_columns, dirExists, files, categoriesFile>>

\* AddCategory putting the new category first in the mapping
AddCategoryFirst(new_category, lines) ==
    IF Strip(new_category) = <<>> THEN Reject
    ELSE IF new_category \in Keys(categories) THEN Reject
    ELSE Mutate(<<[name |-> new_category, keywords |-> KeywordsOfLines(lines)]>>
                \o categories)

\* add_category_form
AddCategory(new_category, lines) ==
    IF Strip(new_category) = <<>> THEN Reject
    ELSE IF new_category \in Keys(categories) THEN Reject
    ELSE Mutate(Append(categories,
                       [name |-> new_category, keywords |-> KeywordsOfLines(lines)]))

\* add_keyword_form
AddKeyword(selected_category, new_keyword) ==
    /\ selected_category \in Keys(categories)
    /\ LET i == IndexOfKey(categories, selected_category)
       IN  IF Strip(new_keyword) = <<>> THEN Reject
           ELSE IF InSeq(Lower(new_keyword), categories[i].keywords)
               THEN Reject
           ELSE Mutate([categories EXCEPT ![i].keywords = Append(@, Lower(new_keyword))])

\* remove_keyword_form
RemoveKeyword(selected_category, keyword_to_remove) ==
    /\ selected_category \in Keys(categories)
    /\ LET i == IndexOfKey(categories, selected_category)
       IN  /\ InSeq(keyword_to_remove, categories[i].keywords)
           /\ Mutate([categories EXCEPT ![i].keywords = RemoveFirst(@, keyword_to_remove)])

\* delete_category_form, with the confirmation ticked
DeleteCategory(selected_category) ==
    /\ selected_category \in Keys(categories)
    /\ LET i == IndexOfKey(categories, selected_category)
       IN  Mutate(SubSeq(categories, 1, i - 1) \o SubSeq(categories, i + 1, Len(categories)))

\* add_keywords_form
AddKeywords(category_for_keywords, lines) ==
    /\ category_for_keywords \in Keys(categories)
    /\ LET i == IndexOfKey(categories, category_for_keywords)
           grown == AppendNew(categories[i].keywords, KeywordsOfLines(lines))
       IN  IF \A l \in DOMAIN lines : Strip(lines[l]) = <<>>
               THEN Reject
           ELSE IF grown = categories[i].keywords THEN Reject
           ELSE Mutate([categories EXCEPT ![i].keywords = grown])

(***************************************************************************)
(* Transaction editor of app.py: show_transactions and its "Guardar         *)
(* Cambios" button.                                                        *)
(***************************************************************************)
\* display_columns of show_transactions
display_columns ==
    { "Transaction ID", "Source Platform", "Type", "Started Date", "Completed Date",
      "Description", "Amount", "Fee", "Currency", "State", "Balance",
      "Category", "Amount in EUR" }

\* display_columns[:-1]: the columns copied from the editor into the table
edited_columns == display_columns \ {"Amount in EUR"}

\* wise_columns of the save handler
wise_columns ==
    { "Transaction ID", "Status", "Type", "Started Date", "Completed Date",
      "Fee", "Fee Currency", "Target Fee", "Target Fee Currency",
      "Source", "Amount", "Currency", "Description",
      "Target Amount", "Target Currency", "Exchange Rate",
      "Reference", "Batch", "Created By", "Source Platform" }

\* revolut_columns of the save handler
revolut_columns ==
    { "Transaction ID", "Status", "Type", "Started Date", "Completed Date",
      "Description", "Amount", "Fee", "Currency", "State", "Balance",
      "Source Platform" }

\* tracker.df[tracker.df['Source Platform'] == platform][columns]
RowsOfPlatform(table, platform, columns) ==
    LET rows == SelectSeq(table, LAMBDA r : r["Source Platform"] = Str(platform))
    IN  [i \in DOMAIN rows |-> [c \in columns |-> rows[i][c]]]

\* the table that show_transactions leaves before the editor is drawn: a
\* display column that the table lacks is created holding ''
Displayed(table) == [i \in DOMAIN table |-> WithColumns(table[i], display_columns, EmptyText)]

\* the rows of the mask: those completed inside the date range, which by
\* default runs from the first to the last completed date of the table; a
\* record without completed date is in no range
Masked(table) == {i \in DOMAIN table : table[i]["Completed Date"].kind = "ts"}

\* the "Guardar Cambios" handler with the cell `column` of the shown row i
\* edited to `value`: the edited columns are assigned to the table; then
\* tracker.df[...][wise_columns] raises KeyError when the table lacks one of
\* the listed columns, likewise for revolut_columns, and `except Exception`
\* reports it: the files are then not written and process_data is not called;
\* ret.missing keeps the columns the KeyError names
SaveChanges(i, column, value) ==
    /\ i \in Masked(Displayed(df))
    /\ column \in edited_columns
    /\ LET edited == [Displayed(df) EXCEPT ![i][column] = value]
           columns == df_columns \cup display_columns
       IN  IF wise_columns \subseteq columns /\ revolut_columns \subseteq columns
           THEN /\ wise_csv' = CsvFile(wise_columns, RowsOfPlatform(edited, Wise, wise_columns))
                /\ revolut_csv' =
                      CsvFile(revolut_columns, RowsOfPlatform(edited, Revolut, revolut_columns))
                /\ df' = process_data(edited, categories)
                /\ df_columns' = process_data_columns(columns)
                /\ ret' = [Return("save_changes") EXCEPT
                             !.input = [columns |-> df_columns, rows |-> df]]
           ELSE /\ df' = edited
                /\ df_columns' = columns
                /\ ret' = [Return("save_changes") EXCEPT
                             !.missing = IF ~(wise_columns \subseteq columns)
                                         THEN wise_columns \ columns
                                         ELSE revolut_columns \ columns,
                             !.input = [columns |-> df_columns, rows |-> df]]
                /\ UNCHANGED <<wise_csv, revolut_csv>>
    /\ UNCHANGED <<categories, dirExists, files, categoriesFile>>

Next ==
    \/ ProcessData
    \/ NetAmountPerMonth
    \/ ExpensesPerCategoryPerMonth
    \/ SaveMonthlyData
    \/ \E f \in DOMAIN files : ManualEdit(f)
    \/ \E n \in NameInputs, l \in LinesInputs : AddCategory(n, l)
    \/ \E n \in Keys(categories), k \in KeywordInputs : AddKeyword(n, k)
    \/ \E n \in Keys(categories) :
          \E k \in {categories[IndexOfKey(categories, n)].keywords[j] :
                       j \in DOMAIN categories[IndexOfKey(categories, n)].keywords} :
              RemoveKeyword(n, k)
    \/ \E n \in Keys(categories) : DeleteCategory(n)
    \/ \E n \in Keys(categories), l \in LinesInputs : AddKeywords(n, l)

Spec == Init /\ [][Next]_vars

(***************************************************************************)
(* The aggregator alone: the two queries of show_dashboard over every      *)
(* table of the aggregator inputs.                                         *)
(***************************************************************************)
InitAgg == InitWith(AggWiseRows, AggRevolutRows, AggCategoryFiles, AggDirectories)

NextAgg ==
    \/ NetAmountPerMonth
    \/ ExpensesPerCategoryPerMonth

SpecAgg == InitAgg /\ [][NextAgg]_vars

(***************************************************************************)
(* The queries, the export and the process pass over the tables of the     *)
(* aggregator inputs, which hold records without a completed date.         *)
(***************************************************************************)
NextNull ==
    \/ ProcessData
    \/ NetAmountPerMonth
    \/ ExpensesPerCategoryPerMonth
    \/ SaveMonthlyData

SpecNull == InitAgg /\ [][NextNull]_vars

(***************************************************************************)
(* The normalizer alone: data_check and process_data over tables with      *)
(* missing, unparsable and valid cells and with absent columns.            *)
(***************************************************************************)
TextAbc == <<"a","b","c">>
TextMinus7 == <<"-","7">>
TextUSD == <<"U","S","D">>

\* a row over the unified columns: text says whether the text and date
\* cells hold a value, number is the cell of every numeric column, money
\* says whether the currency, exchange rate and platform cells hold a value
NormRow(text, number, money) ==
    [ c \in unified_columns |->
        IF c \in numeric_columns THEN number
        ELSE IF c \in currency_columns THEN (IF money THEN Str(TextUSD) ELSE NaN)
        ELSE IF c = "Exchange Rate" THEN (IF money THEN Num(2) ELSE NaN)
        ELSE IF c = "Source Platform" THEN (IF money THEN Str(Wise) ELSE NaN)
        ELSE IF ~text THEN NaN
        ELSE IF c = "Type" THEN Str(TypeOUT)
        ELSE IF c \in {"Started Date", "Completed Date"} THEN Str(Jan15)
        ELSE IF c = "Description" THEN Str(TextMr)
        ELSE Str(TextR) ]

\* a row whose dates are unparsable and whose numbers are the text "-7"
JunkRow ==
    [ NormRow(TRUE, Str(TextMinus7), TRUE) EXCEPT
        !["Started Date"] = Str(TextAbc), !["Completed Date"] = Str(TextAbc) ]

NormRows ==
    { NormRow(t, n, m) : t \in BOOLEAN, n \in {NaN, Str(TextAbc), Num(5)}, m \in BOOLEAN }
    \cup {JunkRow}

\* the columns that the tables of the normalizer specification lack
AbsentColumns ==
    { {}, {"Amount", "Currency"},
      {"Description", "Fee", "Exchange Rate", "Source Platform"} }

InitNorm ==
    \E rows \in SeqsUpTo(NormRows, MaxRows), absent \in AbsentColumns :
        /\ df = [i \in DOMAIN rows |-> [c \in unified_columns \ absent |-> rows[i][c]]]
        /\ df_columns = unified_columns \ absent
        /\ wise_csv = MissingCsv
        /\ revolut_csv = MissingCsv
        /\ categoriesFile \in AggCategoryFiles
        /\ categories = _load_categories(categoriesFile)
        /\ dirExists = FALSE
        /\ files = <<>>
        /\ ret = Return("load")

NextNorm ==
    \/ DataCheck
    \/ ProcessData

SpecNorm == InitNorm /\ [][NextNorm]_vars

(***************************************************************************)
(* The loader alone: the tracker constructed over source files that are    *)
(* missing, unparsable, empty or present, with headers that lack a         *)
(* column of the rename map and have columns outside the unified schema.   *)
(***************************************************************************)
\* a row under another header: the cells of the columns it shares with the
\* header, and the text "r" under every other column of the header
WithHeader(row, header) ==
    [c \in header |-> IF c \in DOMAIN row THEN row[c] ELSE Str(TextR)]

\* the headers of the Wise files: the export's, and one without Direction
\* and with the columns Note and Source Platform
LoadWiseHeaders ==
    { wise_csv_columns,
      (wise_csv_columns \ {"Direction"}) \cup {"Note", "Source Platform"} }

\* the headers of the Revolut files: the export's, and one without Balance
\* and with the columns Note and Source Platform
LoadRevolutHeaders ==
    { revolut_csv_columns,
      (revolut_csv_columns \ {"Balance"}) \cup {"Note", "Source Platform"} }

LoadWiseFiles ==
    { MissingCsv, UnparsableCsv, ZeroByteCsv }
    \cup { CsvFile(h, [i \in DOMAIN w |-> WithHeader(w[i], h)]) :
             h \in LoadWiseHeaders, w \in SeqsUpTo(WiseRows, MaxRows) }

LoadRevolutFiles ==
    { MissingCsv, UnparsableCsv, ZeroByteCsv }
    \cup { CsvFile(h, [i \in DOMAIN v |-> WithHeader(v[i], h)]) :
             h \in LoadRevolutHeaders, v \in SeqsUpTo(RevolutRows, MaxRows) }

InitLoad ==
    \E w \in LoadWiseFiles, v \in LoadRevolutFiles, f \in AggCategoryFiles,
       d \in AggDirectories :
        Construct(w, v, f, d)

NextLoad ==
    \/ ProcessData
    \/ NetAmountPerMonth
    \/ ExpensesPerCategoryPerMonth

SpecLoad == InitLoad /\ [][NextLoad]_vars

(***************************************************************************)
(* The schema check of the two queries: the processed table of the         *)
(* tracker with some of the columns the queries require taken away.        *)
(***************************************************************************)
\* the columns taken away from the table
SchemaAbsentColumns ==
    { {}, {"Year_Month"}, {"Category"}, {"Type", "Amount in EUR"},
      {"Year_Month", "Category", "Amount in EUR", "Type"} }

InitSchema ==
    \E f \in AggCategoryFiles, w \in SeqsUpTo(WiseRows, MaxRows),
       absent \in SchemaAbsentColumns :
      \E v \in SeqsUpTo(RevolutRows, MaxRows - Len(w)) :
        LET store == _load_categories(f)
            table == process_data(
                         _load_and_combine_data(CsvFile(wise_csv_columns, w),
                                                CsvFile(revolut_csv_columns, v)).rows,
                         store)
            cols == process_data_columns(unified_columns) \ absent
        IN  /\ categoriesFile = f
            /\ categories = store
            /\ wise_csv = CsvFile(wise_csv_columns, w)
            /\ revolut_csv = CsvFile(revolut_csv_columns, v)
            /\ df = [i \in DOMAIN table |-> [c \in cols |-> table[i][c]]]
            /\ df_columns = cols
            /\ dirExists = FALSE
            /\ files = <<>>
            /\ ret = Return("load")

NextSchema ==
    \/ NetAmountPerMonth
    \/ ExpensesPerCategoryPerMonth

SpecSchema == InitSchema /\ [][NextSchema]_vars

(***************************************************************************)
(* The editor and the category form: cells of the shown records are edited *)
(* and saved, categories are added, and process_data runs again.           *)
(***************************************************************************)
TextM == <<"M">>

\* the source rows: a dated Wise record "Mr", a Wise record "r" without
\* dates, a dated Revolut record "M"
EditWiseRows ==
    { WiseRow(Str(TypeOUT), Str(Jan15), Str(TextMr), Num(5)),
      WiseRow(Str(TypeIn), NaN, Str(TextR), Num(3)) }

EditRevolutRows ==
    { RevolutRow(Str(TypePayment), Str(Feb03), Str(TextM), Num(0 - 2)) }

\* the category file at start-up: {"R": ["R"]}
EditCategoryFiles ==
    { JsonFile(<< [name |-> NameR, keywords |-> <<<<"R">>>>] >>) }

\* what the user types into the add_category_form
EditNameInputs == { <<" ">>, NameG, NameR }

\* the cells the user types into the editor: an amount and a description;
\* the Category cell is a select box over the keys of the store and "Others"
EditCells == { <<"Amount", Num(9)>>, <<"Description", Str(TextM)>> }

InitEdit == InitWith(EditWiseRows, EditRevolutRows, EditCategoryFiles, AggDirectories)

NextEdit ==
    \/ ProcessData
    \/ \E i \in DOMAIN df, e \in EditCells : SaveChanges(i, e[1], e[2])
    \/ \E i \in DOMAIN df, x \in Keys(categories) \cup {Others} : SaveChanges(i, "Category", x)
    \/ \E n \in EditNameInputs, l \in LinesInputs : AddCategory(n, l)

SpecEdit == InitEdit /\ [][NextEdit]_vars

(***************************************************************************)
(* The single-platform trackers of modules/WiseTracker.py and              *)
(* modules/RevolutTracker.py.  Both keep the frame that load_expenses      *)
(* returned, without an adapter in between, and run their own process      *)
(* pass in the constructor.  A constructor that raised leaves no tracker:  *)
(* ret.op says which one raised and no operation follows.                  *)
(***************************************************************************)
Otros == <<"O","t","r","o","s">>

\* the loops of categorize_expense, returning the given sentinel after them
RECURSIVE CategorizeOr(_, _, _, _)
CategorizeOr(store, i, description, sentinel) ==
    IF i > Len(store) THEN sentinel
    ELSE IF Matches(store[i], description) THEN store[i].name
    ELSE CategorizeOr(store, i + 1, description, sentinel)

\* WiseTracker.categorize_expense
WiseTracker_categorize_expense(store, target_name) ==
    CategorizeOr(store, 1, target_name, Otros)

\* the columns that WiseTracker.data_check fills with ''
wise_text_columns == { "Target name", "Reference", "Created on", "Direction", "ID" }

\* the columns that WiseTracker.data_check fills with 0
wise_amount_columns == { "Source amount (after fees)", "Source fee amount" }

\* WiseTracker.data_check on one row: fillna only, no column is created and
\* no cell is parsed
WiseDataCheckRow(r) ==
    [ c \in DOMAIN r |->
        IF c \in wise_text_columns THEN FillNa(r[c], EmptyText)
        ELSE IF c \in wise_amount_columns THEN FillNa(r[c], Num(0))
        ELSE r[c] ]

\* WiseTracker.add_month_column on one row
WiseAddMonthRow(r) ==
    IF "Created on" \notin DOMAIN r THEN r
    ELSE [ c \in (DOMAIN r) \cup {"Año_Mes"} |->
             IF c = "Año_Mes" THEN ToPeriod(ToDatetime(r["Created on"]))
             ELSE IF c = "Created on" THEN ToDatetime(r[c])
             ELSE r[c] ]

\* WiseTracker.total_amount on one row
WiseTotalAmountRow(r) ==
    [ c \in (DOMAIN r) \cup {"Amount in EUR"} |->
        IF c = "Amount in EUR" THEN FillNa(r["Source amount (after fees)"], Num(0))
        ELSE r[c] ]

TRANSFER == <<"T","R","A","N","S","F","E","R">>

\* WiseAddCategoryRow classifying every row by 'Target name'
WiseAddCategoryRowByTarget(r, store) ==
    IF "Target name" \notin DOMAIN r THEN r
    ELSE [ c \in (DOMAIN r) \cup {"Categoría"} |->
             IF c = "Categoría"
             THEN WiseTracker_categorize_expense(store, r["Target name"].text)
             ELSE r[c] ]

\* WiseTracker.add_category_column on one row: the lambda classifies by
\* 'Target name' if 'TRANSFER' not in row['ID'], else by 'Reference'
WiseAddCategoryRow(r, store) ==
    IF "Target name" \notin DOMAIN r THEN r
    ELSE [ c \in (DOMAIN r) \cup {"Categoría"} |->
             IF c = "Categoría"
             THEN IF ~Contains(r["ID"].text, TRANSFER)
                  THEN WiseTracker_categorize_expense(store, r["Target name"].text)
                  ELSE WiseTracker_categorize_expense(store, r["Reference"].text)
             ELSE r[c] ]

\* WiseTracker.process_data: data_check, add_month_column, total_amount,
\* add_category_column
WiseTracker_process_data(table, store) ==
    [ i \in DOMAIN table |->
        WiseAddCategoryRow(WiseTotalAmountRow(WiseAddMonthRow(WiseDataCheckRow(table[i]))),
                           store) ]

\* the columns of the table after WiseTracker.process_data
WiseTracker_columns(cols) == cols \cup {"Año_Mes", "Amount in EUR", "Categoría"}

\* whether WiseTracker.__init__ raises: load_expenses lets an exception of
\* read_csv other than FileNotFoundError and ParserError through; after
\* these two it returns None and self.df['Target name'] raises TypeError in
\* data_check; a frame without one of the filled columns raises KeyError
WiseTracker_raises(file) ==
    LET loaded == load_expenses(file)
    IN  \/ loaded.result # "frame"
        \/ ~((wise_text_columns \cup wise_amount_columns) \subseteq loaded.columns)

\* required_columns of RevolutTracker.data_check
revolut_required_columns ==
    { "Type", "Product", "Started Date", "Completed Date",
      "Description", "Amount", "Fee", "Currency", "State", "Balance" }

\* RevolutTracker.data_check on one row
RevolutDataCheckRow(r) ==
    LET full == WithColumns(r, revolut_required_columns, EmptyText)
    IN  [ c \in DOMAIN full |->
            IF c \in {"Type", "Product", "Started Date", "Completed Date",
                      "Description", "State"}
                THEN FillNa(full[c], EmptyText)
            ELSE IF c \in {"Amount", "Fee", "Balance"}
                THEN FillNa(ToNumeric(full[c]), Num(0))
            ELSE IF c = "Currency" THEN FillNa(full[c], Str(base_currency))
            ELSE full[c] ]

\* RevolutTracker.add_category_column on one row
RevolutAddCategoryRow(r, store) ==
    IF "Description" \notin DOMAIN r THEN r
    ELSE [ c \in (DOMAIN r) \cup {"Category"} |->
             IF c = "Category" THEN categorize_expense(store, r.Description.text)
             ELSE r[c] ]

\* RevolutTracker.add_month_column on one row
RevolutAddMonthRow(r) ==
    IF "Completed Date" \notin DOMAIN r THEN r
    ELSE [ c \in (DOMAIN r) \cup {"Year_Month"} |->
             IF c = "Year_Month" THEN ToPeriod(ToDatetime(r["Completed Date"]))
             ELSE IF c = "Completed Date" THEN ToDatetime(r[c])
             ELSE r[c] ]

\* the exchange_rates argument of RevolutTracker.__init__
exchange_rates == [k \in {TextUSD} |-> 2]

\* RevolutTracker.total_amount on one row:
\* (Amount + Fee) * exchange_rates.get(Currency, 1.0)
RevolutTotalAmountRow(r) ==
    [ c \in (DOMAIN r) \cup {"Amount in EUR"} |->
        IF c = "Amount in EUR"
        THEN Num((r.Amount.num + r.Fee.num)
                 * (IF r.Currency.kind = "str" /\ r.Currency.text \in DOMAIN exchange_rates
                    THEN exchange_rates[r.Currency.text] ELSE 1))
        ELSE r[c] ]

\* RevolutTracker.process_data: data_check, add_category_column,
\* add_month_column, total_amount
RevolutTracker_process_data(table, store) ==
    [ i \in DOMAIN table |->
        RevolutTotalAmountRow(RevolutAddMonthRow(
            RevolutAddCategoryRow(RevolutDataCheckRow(table[i]), store))) ]

\* the columns of the table after RevolutTracker.process_data
RevolutTracker_columns(cols) ==
    cols \cup revolut_required_columns \cup {"Category", "Year_Month", "Amount in EUR"}

\* whether RevolutTracker.__init__ raises: as for WiseTracker, except that
\* data_check creates the columns it fills; on None the test
\* `col not in self.df.columns` raises AttributeError
RevolutTracker_raises(file) == load_expenses(file).result # "frame"

\* the state left when a constructor raised: there is no tracker
Raised(op, wise_file, revolut_file, category_file) ==
    /\ categoriesFile = category_file
    /\ categories = _load_categories(category_file)
    /\ wise_csv = wise_file
    /\ revolut_csv = revolut_file
    /\ df = <<>>
    /\ df_columns = {}
    /\ dirExists = FALSE
    /\ files = <<>>
    /\ ret = Return(op)

\* WiseTracker.__init__ over the file at csv_path
WiseTracker_init(file, category_file) ==
    IF WiseTracker_raises(file)
    THEN Raised("WiseTracker raised", file, MissingCsv, category_file)
    ELSE /\ categoriesFile = category_file
         /\ categories = _load_categories(category_file)
         /\ wise_csv = file
         /\ revolut_csv = MissingCsv
         /\ df = WiseTracker_process_data(file.rows, _load_categories(category_file))
         /\ df_columns = WiseTracker_columns(file.columns)
         /\ dirExists = FALSE
         /\ files = <<>>
         /\ ret = [Return("WiseTracker") EXCEPT
                      !.input = [columns |-> file.columns, rows |-> file.rows]]

\* RevolutTracker.__init__ over the file at csv_path
RevolutTracker_init(file, category_file) ==
    IF RevolutTracker_raises(file)
    THEN Raised("RevolutTracker raised", MissingCsv, file, category_file)
    ELSE /\ categoriesFile = category_file
         /\ categories = _load_categories(category_file)
         /\ wise_csv = MissingCsv
         /\ revolut_csv = file
         /\ df = RevolutTracker_process_data(file.rows, _load_categories(category_file))
         /\ df_columns = RevolutTracker_columns(file.columns)
         /\ dirExists = FALSE
         /\ files = <<>>
         /\ ret = [Return("RevolutTracker") EXCEPT
                      !.input = [columns |-> file.columns, rows |-> file.rows]]

\* WiseTracker.process_data() called again on the tracker
WiseTrackerProcessData ==
    /\ ret.op = "WiseTracker"
    /\ df' = WiseTracker_process_data(df, categories)
    /\ df_columns' = WiseTracker_columns(df_columns)
    /\ ret' = [Return("WiseTracker") EXCEPT !.input = [columns |-> df_columns, rows |-> df]]
    /\ UNCHANGED <<categories, wise_csv, revolut_csv, dirExists, files, categoriesFile>>

\* RevolutTracker.process_data() called again on the tracker
RevolutTrackerProcessData ==
    /\ ret.op = "RevolutTracker"
    /\ df' = RevolutTracker_process_data(df, categories)
    /\ df_columns' = RevolutTracker_columns(df_columns)
    /\ ret' = [Return("RevolutTracker") EXCEPT !.input = [columns |-> df_columns, rows |-> df]]
    /\ UNCHANGED <<categories, wise_csv, revolut_csv, dirExists, files, categoriesFile>>

TextTransfer1 == <<"T","R","A","N","S","F","E","R","-","1">>
TextLowerTransfer1 == <<"t","r","a","n","s","f","e","r","-","1">>
TextCard1 == <<"C","A","R","D","-","1">>

\* a row of a Wise export with the given identifier, target name,
\* reference and amount, created on 2024-01-15
WiseRecord(id, target_name, reference, amount) ==
    [ WiseRow(Str(TypeOUT), NaN, target_name, amount) EXCEPT
        !["ID"] = id, !["Reference"] = reference, !["Created on"] = Str(Jan15) ]

\* the rows of the Wise files: transfers and card payments whose target
\* name and reference are matched by different categories, a lower-case
\* identifier, an unparsable amount and a row without any cell
VariantWiseRows ==
    { WiseRecord(Str(TextTransfer1), Str(TextM), Str(TextR), Num(5)),
      WiseRecord(Str(TextCard1), Str(TextR), Str(TextM), NaN),
      WiseRecord(Str(TextLowerTransfer1), Str(TextM), Str(TextR), Num(5)),
      WiseRecord(Str(TextTransfer1), Str(TextM), NaN, Str(TextAbc)),
      WiseRow(NaN, NaN, NaN, NaN) }

\* the rows of the Revolut files
VariantRevolutRows ==
    { RevolutRow(Str(TypePayment), Str(Feb03), Str(TextMr), Num(0 - 2)),
      RevolutRow(Str(TypeDEPOSIT), Str(Jan15), Str(TextR), Str(TextAbc)),
      [RevolutRow(Str(TypePayment), Str(Jan15), NaN, Num(4)) EXCEPT
          !.Currency = Str(TextUSD), !.Fee = Num(1)],
      RevolutRow(NaN, NaN, NaN, NaN) }

\* the files at csv_path: missing, unparsable, of zero bytes, an export
\* without the Reference column, or an export with at least one row (what
\* apply(axis=1) returns on a frame without rows depends on the pandas
\* version, so a file with a header only is left out)
VariantWiseFiles ==
    { MissingCsv, UnparsableCsv, ZeroByteCsv }
    \cup { CsvFile(wise_csv_columns \ {"Reference"},
                   << [c \in wise_csv_columns \ {"Reference"} |-> NaN] >>) }
    \cup { CsvFile(wise_csv_columns, w) : w \in SeqsUpTo(VariantWiseRows, MaxRows) \ {<<>>} }

VariantRevolutFiles ==
    { MissingCsv, UnparsableCsv, ZeroByteCsv }
    \cup { CsvFile(revolut_csv_columns \ {"Balance"},
                   << [c \in revolut_csv_columns \ {"Balance"} |-> NaN] >>) }
    \cup { CsvFile(revolut_csv_columns, v) :
             v \in SeqsUpTo(VariantRevolutRows, MaxRows) \ {<<>>} }

InitVariants ==
    \E f \in CategoryFiles :
        \/ \E w \in VariantWiseFiles : WiseTracker_init(w, f)
        \/ \E v \in VariantRevolutFiles : RevolutTracker_init(v, f)

NextVariants ==
    \/ WiseTrackerProcessData
    \/ RevolutTrackerProcessData

SpecVariants == InitVariants /\ [][NextVariants]_vars

(***************************************************************************)
(* Start-up of the unified tracker over every file the three paths can     *)
(* hold, followed by the two queries of the dashboard.                     *)
(***************************************************************************)
\* a category file whose bytes are not UTF-8, such as a JSON text saved in
\* Latin-1 with an accented letter: file.read() inside json.load raises
\* UnicodeDecodeError
UndecodableFile == [status |-> "undecodable", json |-> <<>>]

\* whether FinanceTracker._load_categories raises: the handler catches
\* FileNotFoundError and json.JSONDecodeError only
_load_categories_raises(file) == file.status = "undecodable"

\* FinanceTracker.__init__ with the exception of _load_categories let through
FinanceTracker_init(wise_file, revolut_file, category_file, directory) ==
    IF _load_categories_raises(category_file)
    THEN Raised("FinanceTracker raised", wise_file, revolut_file, category_file)
    ELSE Construct(wise_file, revolut_file, category_file, directory)

StartCategoryFiles == CategoryFiles \cup {UndecodableFile}

InitStart ==
    \E w \in LoadWiseFiles, v \in LoadRevolutFiles, f \in StartCategoryFiles,
       d \in AggDirectories :
        FinanceTracker_init(w, v, f, d)

NextStart ==
    \/ ret.op # "FinanceTracker raised" /\ NetAmountPerMonth
    \/ ret.op # "FinanceTracker raised" /\ ExpensesPerCategoryPerMonth

SpecStart == InitStart /\ [][NextStart]_vars

(***************************************************************************)
(* Properties of the categorizer.                                          *)
(***************************************************************************)
\* keyword k occurs in description d when case is ignored, character by character
OccursIgnoringCase(k, d) ==
    \E i \in 0..(Len(d) - Len(k)) :
        \A j \in 1..Len(k) : LowerChar(d[i + j]) = LowerChar(k[j])

\* the category at position j of the store has a keyword occurring in d
CategoryHits(j, d) ==
    \E k \in DOMAIN categories[j].keywords : OccursIgnoringCase(categories[j].keywords[k], d)

\* C1: the category of every record is the first category, in mapping order,
\* with a keyword that is a case-insensitive substring of the description,
\* and the sentinel "Others" when no keyword of any category is.
C1_FirstMatchWins ==
    \A r \in DOMAIN df :
        LET d == df[r].Description.text
        IN  IF \E j \in DOMAIN categories : CategoryHits(j, d)
            THEN \E j \in DOMAIN categories :
                    /\ CategoryHits(j, d)
                    /\ \A h \in 1..(j - 1) : ~CategoryHits(h, d)
                    /\ df[r].Category = categories[j].name
            ELSE df[r].Category = Others

\* a record whose description is hit by two categories, only through letters
\* of different case, next to a record that no category hits
C1_Witness ==
    /\ \E r \in DOMAIN df :
          \E j, h \in DOMAIN categories :
              /\ j < h
              /\ CategoryHits(j, df[r].Description.text)
              /\ CategoryHits(h, df[r].Description.text)
              /\ ~MatchesCaseSensitive(categories[j], df[r].Description.text)
              /\ df[r].Category = categories[j].name
    /\ \E r \in DOMAIN df :
          /\ df[r].Description.text # <<>>
          /\ df[r].Category = Others

\* C2: in every state, each of which follows a process pass, every record
\* has a category, and it is a key of the current store or the sentinel
\* "Others".
C2_CategoryAlwaysValid ==
    \A r \in DOMAIN df : df[r].Category \in Keys(categories) \cup {Others}

\* the store was saved by a handler and holds one category: a record that
\* it does not hit carries the sentinel, next to a record classified by the key
C2_Witness ==
    /\ categoriesFile.status = "ok"
    /\ Len(categories) = 1
    /\ \E r \in DOMAIN df :
          /\ df[r].Description.text = TextR
          /\ df[r].Category = Others
    /\ \E r \in DOMAIN df : df[r].Category \in Keys(categories)

(***************************************************************************)
(* Properties of the monthly exporter.                                     *)
(***************************************************************************)
\* the file names "<year_month>.csv" of the months of the table
MonthFiles(table) ==
    {PeriodStr(table[r].Year_Month) \o <<".","c","s","v">> :
        r \in {q \in DOMAIN table : table[q].Year_Month.kind = "period"}}

\* the records of the table whose month names file f, in table order
RecordsOfFile(table, f) ==
    SelectSeq(table, LAMBDA r :
        /\ r.Year_Month.kind = "period"
        /\ PeriodStr(r.Year_Month) \o <<".","c","s","v">> = f)

\* C8: no step of the program (process, a category mutation, a query, an
\* export) changes or removes a partition file that exists, whatever its
\* content; an export reports as skipped exactly the months of the table
\* whose file existed.
C8_ExportNeverOverwrites ==
    [][ (ret'.op # "manual_edit" =>
            \A f \in DOMAIN files : f \in DOMAIN files' /\ files'[f] = files[f])
        /\ (ret'.op = "export" =>
            ret'.skipped = MonthFiles(df) \cap DOMAIN files) ]_vars

\* an export has just skipped a file that holds no rows, although the table
\* has records for its month, and has written the file of another month
C8_Witness ==
    /\ ret.op = "export"
    /\ ret.written # {}
    /\ \E f \in ret.skipped : files[f] = <<>> /\ RecordsOfFile(df, f) # <<>>

\* C9: an export that directly follows an export changes no file, creates
\* none and leaves the directory as it was.
C9_ExportIdempotent ==
    [][ (ret.op = "export" /\ ret'.op = "export") =>
            (files' = files /\ dirExists' = dirExists /\ ret'.written = {}) ]_vars

\* an export that found every month of a table of two months already written
C9_Witness ==
    /\ ret.op = "export"
    /\ ret.written = {}
    /\ Cardinality(ret.skipped) = 2
    /\ ret.skipped = MonthFiles(df)
    /\ \A f \in ret.skipped : files[f] = RecordsOfFile(df, f)

\* C10: an export leaves the directory existing, keeps every file as it was,
\* and for every month of the table without a file writes the file
\* "<year_month>.csv" holding exactly the records of that month; the files
\* afterwards are those before together with the months of the table.
C10_ExportAdditive ==
    [][ ret'.op = "export" =>
            /\ dirExists'
            /\ DOMAIN files' = (DOMAIN files) \cup MonthFiles(df)
            /\ \A f \in DOMAIN files : files'[f] = files[f]
            /\ \A f \in MonthFiles(df) \ DOMAIN files : files'[f] = RecordsOfFile(df, f)
            /\ ret'.written = MonthFiles(df) \ DOMAIN files ]_vars

\* an export of a table with a record of February and a record without
\* month wrote the file of February next to the file of a month that the
\* table does not have
C10_Witness ==
    /\ ret.op = "export"
    /\ dirExists
    /\ \E r \in DOMAIN df : IsNull(df[r].Year_Month)
    /\ \E f \in ret.written : files[f] = RecordsOfFile(df, f) /\ Len(files[f]) < Len(df)
    /\ \E f \in DOMAIN files : f \notin MonthFiles(df)

(***************************************************************************)
(* Properties of the aggregator.                                           *)
(***************************************************************************)
\* the month "YYYY-MM" of a record of the table; <<>> when it has none
MonthOf(r) ==
    IF df[r].Year_Month.kind = "period" THEN PeriodStr(df[r].Year_Month) ELSE <<>>

\* the records of month m whose type, as written, is one of the given types
RecordsAsWritten(m, types) ==
    {r \in DOMAIN df : MonthOf(r) = m /\ df[r].Type.text \in types}

\* the records of month m whose upper-cased type is one of the given types
RecordsOfKind(m, types) ==
    {r \in DOMAIN df : MonthOf(r) = m /\ Upper(df[r].Type.text) \in types}

\* the sum of the amounts of a set of records of the table
RECURSIVE SumOfRecords(_)
SumOfRecords(S) ==
    IF S = {} THEN 0
    ELSE LET r == CHOOSE x \in S : TRUE
         IN  df[r].Amount.num + SumOfRecords(S \ {r})

AllMonths == {MonthOf(r) : r \in DOMAIN df} \ {<<>>}

NeitherAsWritten(r) == r.Type.text \notin income_types \cup expense_types

NeitherKind(r) == Upper(r.Type.text) \notin income_types \cup expense_types

\* the table without the records whose type, as written, is in neither set
WithoutNeitherAsWritten == SelectSeq(df, LAMBDA r : ~NeitherAsWritten(r))

\* the table without the records whose upper-cased type is in neither set
WithoutNeitherKind == SelectSeq(df, LAMBDA r : ~NeitherKind(r))

\* C4, as claimed: the records whose type is in neither set contribute to no
\* sum of net_per_month and to no pivot: both results are those of the table
\* without these records.
C4_UnrecognisedExcluded_AsClaimed ==
    /\ ret.op = "net" => ret.net = net_amount_per_month(WithoutNeitherAsWritten)
    /\ ret.op = "pivots" =>
          ret.pivots = expenses_per_category_per_month(WithoutNeitherAsWritten)

\* C4, amended: the records whose upper-cased type is in neither set
\* contribute to no sum of net_per_month and to no pivot, for either platform.
C4_UnrecognisedExcluded ==
    /\ ret.op = "net" => ret.net = net_amount_per_month(WithoutNeitherKind)
    /\ ret.op = "pivots" =>
          ret.pivots = expenses_per_category_per_month(WithoutNeitherKind)

\* one record of each platform, both of unrecognised type, with a month and
\* a non-zero amount: net_per_month returned no month
C4_Witness ==
    /\ ret.op = "net"
    /\ ret.net = <<>>
    /\ Len(df) = 2
    /\ df[1]["Source Platform"] = Str(Wise) /\ df[2]["Source Platform"] = Str(Revolut)
    /\ \A r \in DOMAIN df :
          /\ NeitherKind(df[r])
          /\ MonthOf(r) # <<>>
          /\ df[r].Amount.num # 0

\* the cell of a pivot, a cell that the pivot does not have counting as 0
CellOrZero(pivot, m, c) ==
    IF m \in pivot.index /\ c \in pivot.columns THEN pivot.cell[<<m, c>>] ELSE 0

\* a pivot with its months written "YYYY-MM"
ByMonthName(pivot) ==
    [ index |-> {PeriodStr(p) : p \in pivot.index},
      columns |-> pivot.columns,
      cell |-> [ k \in {PeriodStr(p) : p \in pivot.index} \X pivot.columns |->
                   pivot.cell[<<CHOOSE p \in pivot.index : PeriodStr(p) = k[1], k[2]>>] ] ]

Max(a, b) == IF a >= b THEN a ELSE b

\* C5: the net pivot has the months and the categories of the expense and
\* income pivots together, and each of its cells is
\* max(0, expense cell - income cell), a cell missing from a pivot counting
\* as 0; so a category with net income in a month reports 0.
C5_NetPivotFormula ==
    ret.op = "pivots" =>
        LET e == ByMonthName(ret.pivots.expenses)
            i == ByMonthName(ret.pivots.incomes)
            n == ret.pivots.net
        IN  /\ n.index = e.index \cup i.index
            /\ n.columns = e.columns \cup i.columns
            /\ \A m \in n.index, c \in n.columns :
                  n.cell[<<m, c>>] = Max(0, CellOrZero(e, m, c) - CellOrZero(i, m, c))

\* the pivots of a table where a cell is missing from both pivots, a cell
\* has net income and reports 0, and a cell is only in the expense pivot and
\* reports its expense
C5_Witness ==
    /\ ret.op = "pivots"
    /\ LET e == ByMonthName(ret.pivots.expenses)
           i == ByMonthName(ret.pivots.incomes)
           n == ret.pivots.net
       IN  /\ \E m \in n.index, c \in n.columns :
                 /\ ~(m \in e.index /\ c \in e.columns)
                 /\ ~(m \in i.index /\ c \in i.columns)
                 /\ n.cell[<<m, c>>] = 0
           /\ \E m \in n.index, c \in n.columns :
                 /\ CellOrZero(i, m, c) > CellOrZero(e, m, c)
                 /\ n.cell[<<m, c>>] = 0
           /\ \E m \in n.index, c \in n.columns :
                 /\ ~(m \in i.index /\ c \in i.columns)
                 /\ n.cell[<<m, c>>] > 0

\* C6: every cell of the net pivot returned by per_category_per_month is >= 0.
C6_NetPivotNonNegative ==
    ret.op = "pivots" =>
        \A k \in DOMAIN ret.pivots.net.cell : ret.pivots.net.cell[k] >= 0

\* the pivots of a table with a negative amount among the expenses of a
\* category and month that have no income, and with a month that occurs
\* only among the incomes
C6_Witness ==
    /\ ret.op = "pivots"
    /\ \E k \in DOMAIN ret.pivots.expenses.cell :
          /\ ret.pivots.expenses.cell[k] < 0
          /\ CellOrZero(ret.pivots.incomes, k[1], k[2]) = 0
          /\ ret.pivots.net.cell[<<PeriodStr(k[1]), k[2]>>] = 0
    /\ \E p \in ret.pivots.incomes.index : p \notin ret.pivots.expenses.index

\* the records of month p (a period) and category c of the given kind
RecordsOfCell(p, c, types) ==
    {r \in DOMAIN df :
        /\ df[r].Year_Month = p
        /\ df[r].Category = c
        /\ Upper(df[r].Type.text) \in types}

\* a pivot holds, for the months and the categories of the records of a
\* kind, the sum of the amounts of the records of each cell, 0.0 without one
PivotOfKind(pivot, types) ==
    /\ pivot.index = {df[r].Year_Month : r \in
                        {q \in DOMAIN df : /\ df[q].Year_Month.kind = "period"
                                            /\ Upper(df[q].Type.text) \in types}}
    /\ pivot.columns = {df[r].Category : r \in
                        {q \in DOMAIN df : /\ df[q].Year_Month.kind = "period"
                                            /\ Upper(df[q].Type.text) \in types}}
    /\ \A p \in pivot.index, c \in pivot.columns :
          pivot.cell[<<p, c>>] = SumOfRecords(RecordsOfCell(p, c, types))

\* the table of the scenario: one OUT record "Local Market Purchase" of 50
\* in 2024-01, under the store {Groceries: [market], Rent: [landlord]}
ScenarioTable ==
    /\ categories = << [name |-> NameGroceries, keywords |-> <<KeywordMarket>>],
                       [name |-> NameRent, keywords |-> <<KeywordLandlord>>] >>
    /\ Len(df) = 1
    /\ df[1].Description.text = TextLocalMarketPurchase
    /\ df[1].Type.text = TypeOUT
    /\ df[1].Amount = Num(50)
    /\ MonthOf(1) = <<"2","0","2","4","-","0","1">>

\* C7: expense_pivot[m][c] is the sum of the amounts of the expense records
\* of month m and category c, income_pivot[m][c] the same for the income
\* records, and a cell without such a record holds 0; in the scenario the
\* record is classified Groceries and expense_pivot[2024-01][Groceries] = 50.
C7_PivotCells ==
    ret.op = "pivots" =>
        /\ PivotOfKind(ret.pivots.expenses, expense_types)
        /\ PivotOfKind(ret.pivots.incomes, income_types)
        /\ ScenarioTable =>
              /\ df[1].Category = NameGroceries
              /\ ByMonthName(ret.pivots.expenses).cell[
                     << <<"2","0","2","4","-","0","1">>, NameGroceries >>] = 50

\* the pivots of the scenario table
C7_Witness ==
    /\ ret.op = "pivots"
    /\ ScenarioTable
    /\ ret.pivots.expenses.cell = [k \in {<<Period(202401), NameGroceries>>} |-> 50]

(***************************************************************************)
(* Properties of the normalizer.                                           *)
(***************************************************************************)
\* C11: data_check run on a table that data_check returned gives the same
\* table, and process_data run on a table that process_data returned, with
\* the same category store, gives the same table.
C11_NormalizeIdempotent ==
    /\ ret.op = "data_check" =>
          /\ data_check(df) = df
          /\ data_check_columns(df_columns) = df_columns
    /\ ret.op = "process" =>
          /\ process_data(df, categories) = df
          /\ process_data_columns(df_columns) = df_columns

\* some cell of the table is x
SomeCell(table, x) ==
    \E i \in DOMAIN table.rows : \E c \in table.columns : table.rows[i][c] = x

\* the cell holds text with a character that is neither a digit nor a sign
IsUnparsableNumber(cell) ==
    /\ cell.kind = "str"
    /\ \E j \in DOMAIN cell.text : ~IsDigit(cell.text[j]) /\ cell.text[j] # "-"

\* data_check has run on a table with a missing cell, a number that does not
\* parse, a date that does not parse and a valid text, and changed it
C11_Witness ==
    /\ ret.op = "data_check"
    /\ SomeCell(ret.input, NaN)
    /\ \E i \in DOMAIN ret.input.rows :
          /\ "Amount" \in ret.input.columns
          /\ IsUnparsableNumber(ret.input.rows[i].Amount)
    /\ \E i \in DOMAIN ret.input.rows :
          ret.input.rows[i]["Completed Date"] = Str(TextAbc)
    /\ SomeCell(ret.input, Str(TextMr))
    /\ df # ret.input.rows

\* the default of a column as the fill policy states it
DefaultOf(c) ==
    IF c \in {"Amount", "Fee", "Balance", "Target Amount", "Target Fee"} THEN Num(0)
    ELSE IF c \in {"Currency", "Target Currency", "Target Fee Currency"}
        THEN Str(<<"E","U","R">>)
    ELSE IF c = "Exchange Rate" THEN Num(1)
    ELSE IF c = "Source Platform" THEN Str(<<"U","n","k","n","o","w","n">>)
    ELSE Str(<<>>)

\* C12: after data_check every unified column exists in every row; a cell
\* that was missing holds the default of its column (the empty string for
\* text, 0 for amount, fee, balance, target amount and target fee, the base
\* currency for the currency columns, 1 for the exchange rate, "Unknown" for
\* the platform); a cell that held text in a column that is not numeric, or
\* a number, is unchanged, and so is every column outside the schema.
C12_DefaultFill ==
    ret.op = "data_check" =>
        /\ unified_columns \subseteq df_columns
        /\ Len(df) = Len(ret.input.rows)
        /\ \A i \in DOMAIN df :
              /\ DOMAIN df[i] = df_columns
              /\ \A c \in ret.input.columns :
                    LET before == ret.input.rows[i][c]
                    IN  IF c \notin unified_columns THEN df[i][c] = before
                        ELSE IF before \in {NaN, NaT} THEN df[i][c] = DefaultOf(c)
                        ELSE IF before.kind = "num" \/ DefaultOf(c) # Num(0)
                            THEN df[i][c] = before
                        ELSE TRUE

\* data_check has run on a table without the columns Amount and Currency,
\* with a row whose cells are all missing and a row with text, a number, a
\* currency, a rate and a platform
C12_Witness ==
    /\ ret.op = "data_check"
    /\ ret.input.columns = unified_columns \ {"Amount", "Currency"}
    /\ Len(ret.input.rows) = 2
    /\ \A c \in ret.input.columns : ret.input.rows[1][c] = NaN
    /\ \A c \in ret.input.columns : ret.input.rows[2][c] # NaN
    /\ ret.input.rows[2].Fee = Num(5)
    /\ df[1].Fee = Num(0) /\ df[1]["Target Currency"] = Str(base_currency)
    /\ df[2].Fee = Num(5) /\ df[2]["Target Currency"] = Str(TextUSD)

\* C13: data_check and process_data return a table with every row of their
\* input, in which each cell of amount, fee, balance, target amount and
\* target fee that held unparsable text such as "abc" holds 0; after
\* process_data the amount in EUR of a row with an unparsable amount is 0.
C13_UnparsableNumberIsZero ==
    ret.op \in {"data_check", "process"} =>
        /\ Len(df) = Len(ret.input.rows)
        /\ \A i \in DOMAIN ret.input.rows :
              \A c \in {"Amount", "Fee", "Balance", "Target Amount", "Target Fee"} :
                  (c \in ret.input.columns /\ IsUnparsableNumber(ret.input.rows[i][c])) =>
                      /\ df[i][c] = Num(0)
                      /\ (ret.op = "process" /\ c = "Amount") => df[i]["Amount in EUR"] = Num(0)

\* process_data has run on a table with a row whose numeric cells hold "abc"
\* next to a row whose numeric cells hold 5
C13_Witness ==
    /\ ret.op = "process"
    /\ Len(df) = 2
    /\ \A c \in {"Amount", "Fee", "Balance", "Target Amount", "Target Fee"} :
          /\ ret.input.rows[1][c] = Str(TextAbc)
          /\ ret.input.rows[2][c] = Num(5)
          /\ df[1][c] = Num(0)
          /\ df[2][c] = Num(5)

\* the cell holds the text YYYY-MM-DD of a calendar day
IsDayText(cell) ==
    /\ cell.kind = "str"
    /\ Len(cell.text) = 10
    /\ cell.text[5] = "-" /\ cell.text[8] = "-"
    /\ \A j \in {1, 2, 3, 4, 6, 7, 9, 10} : IsDigit(cell.text[j])
    /\ LET y == DigitsVal(SubSeq(cell.text, 1, 4))
           m == DigitsVal(SubSeq(cell.text, 6, 7))
           d == DigitsVal(SubSeq(cell.text, 9, 10))
       IN  y >= 1 /\ m \in 1..12 /\ d >= 1 /\ d <= DaysInMonth(y, m)

\* C21: after process_data the month of a record whose completed date is a
\* day YYYY-MM-DD is the period written "YYYY-MM"; a started or completed
\* date that is missing or does not parse is null afterwards, and a record
\* whose completed date is null has a null month; every record is kept.
C21_YearMonthOfCompleted ==
    ret.op = "process" =>
        /\ Len(df) = Len(ret.input.rows)
        /\ \A i \in DOMAIN df :
              LET completed == ret.input.rows[i]["Completed Date"]
                  started == ret.input.rows[i]["Started Date"]
              IN  /\ IF IsDayText(completed)
                         THEN /\ df[i].Year_Month.kind = "period"
                              /\ PeriodStr(df[i].Year_Month) = SubSeq(completed.text, 1, 7)
                     ELSE IF completed.kind = "ts"
                         THEN /\ df[i]["Completed Date"] = completed
                              /\ df[i].Year_Month = Period(completed.num \div 100)
                     ELSE /\ df[i]["Completed Date"] = NaT
                          /\ df[i].Year_Month = NaT
                  /\ (~IsDayText(started) /\ started.kind # "ts") =>
                        df[i]["Started Date"] = NaT
                  /\ df[i]["Completed Date"] = NaT => df[i].Year_Month = NaT

\* process_data has run on a table with a record completed on 2024-01-15
\* next to a record whose two dates are the text "abc"
C21_Witness ==
    /\ ret.op = "process"
    /\ Len(df) = 2
    /\ ret.input.rows[1]["Completed Date"] = Str(Jan15)
    /\ PeriodStr(df[1].Year_Month) = <<"2","0","2","4","-","0","1">>
    /\ ret.input.rows[2]["Completed Date"] = Str(TextAbc)
    /\ ret.input.rows[2]["Started Date"] = Str(TextAbc)
    /\ df[2]["Started Date"] = NaT /\ df[2]["Completed Date"] = NaT
    /\ df[2].Year_Month = NaT

(***************************************************************************)
(* Properties of the adapters and the combiner.  ret.messages is not empty *)
(* in the state the constructor leaves, where ret.input is the combined    *)
(* table.                                                                  *)
(***************************************************************************)
\* the rows read from a source file: none when the file is missing or
\* cannot be parsed
RowsRead(file) == IF file.status = "ok" THEN file.rows ELSE <<>>

PlatformOf(row) == row["Source Platform"]

\* C14: the adapter of a source file that is missing or cannot be parsed
\* returns an empty table and reports an error; the constructor completes,
\* and the combined table has one row per row read from the files that did
\* load, the Wise rows stamped Wise and the Revolut rows stamped Revolut,
\* hence no row when both fail; the processed table has as many rows.
C14_LoadFailureRecovered ==
    ret.messages # <<>> =>
        /\ wise_csv.status # "ok" =>
              _load_wise_data(wise_csv) = EmptyFrame /\ ret.messages[1] = "error"
        /\ revolut_csv.status # "ok" =>
              _load_revolut_data(revolut_csv) = EmptyFrame /\ ret.messages[2] = "error"
        /\ Len(ret.input.rows) = Len(RowsRead(wise_csv)) + Len(RowsRead(revolut_csv))
        /\ \A i \in DOMAIN ret.input.rows :
              PlatformOf(ret.input.rows[i]) =
                  IF i <= Len(RowsRead(wise_csv)) THEN Str(Wise) ELSE Str(Revolut)
        /\ Len(df) = Len(ret.input.rows)

\* the tracker constructed with an unparsable Wise file next to a Revolut
\* file of two rows
C14_Witness ==
    /\ ret.messages = <<"error", "loaded">>
    /\ wise_csv = UnparsableCsv
    /\ Len(revolut_csv.rows) = 2
    /\ Len(df) = 2
    /\ PlatformOf(df[1]) = Str(Revolut) /\ PlatformOf(df[2]) = Str(Revolut)

\* the cell of a row read from a file under the unified column c, which the
\* rename map gives to one of the file's columns
CellRead(file, map, i, c) ==
    file.rows[i][CHOOSE k \in file.columns : Renamed(map, k) = c]

\* the unified columns that a file provides through the rename map
Provided(file, map) ==
    {Renamed(map, k) : k \in file.columns} \cap (unified_columns \ {"Source Platform"})

\* C17: the combined table has as many rows as the two loaded tables
\* together; its first rows are the Wise rows in the order of the Wise
\* file, cell by cell, and the rows after them are the Revolut rows in the
\* order of the Revolut file.
C17_WiseBeforeRevolut ==
    ret.messages # <<>> =>
        LET nW == Len(RowsRead(wise_csv))
            nR == Len(RowsRead(revolut_csv))
        IN  /\ Len(ret.input.rows) = nW + nR
            /\ \A i \in 1..nW :
                  /\ PlatformOf(ret.input.rows[i]) = Str(Wise)
                  /\ \A c \in Provided(wise_csv, wise_rename) :
                        ret.input.rows[i][c] = CellRead(wise_csv, wise_rename, i, c)
            /\ \A j \in 1..nR :
                  /\ PlatformOf(ret.input.rows[nW + j]) = Str(Revolut)
                  /\ \A c \in Provided(revolut_csv, revolut_rename) :
                        ret.input.rows[nW + j][c] =
                            CellRead(revolut_csv, revolut_rename, j, c)

\* the tracker constructed over two different Wise rows and two different
\* Revolut rows
C17_Witness ==
    /\ ret.messages = <<"loaded", "loaded">>
    /\ Len(wise_csv.rows) = 2 /\ wise_csv.rows[1] # wise_csv.rows[2]
    /\ Len(revolut_csv.rows) = 2 /\ revolut_csv.rows[1] # revolut_csv.rows[2]
    /\ Len(ret.input.rows) = 4
    /\ ret.input.rows[1].Description = wise_csv.rows[1]["Target name"]
    /\ ret.input.rows[4].Description = revolut_csv.rows[2].Description

\* C18: the combined table has the unified columns and no other, in every
\* row and also when it has no row; a unified column that the file of a
\* row does not provide is missing (null) in that row.
C18_UnifiedSchema ==
    ret.messages # <<>> =>
        LET nW == Len(RowsRead(wise_csv))
        IN  /\ ret.input.columns = unified_columns
            /\ \A i \in DOMAIN ret.input.rows :
                  /\ DOMAIN ret.input.rows[i] = unified_columns
                  /\ \A c \in unified_columns \ {"Source Platform"} :
                        LET provided == IF i <= nW THEN Provided(wise_csv, wise_rename)
                                        ELSE Provided(revolut_csv, revolut_rename)
                        IN  c \notin provided => ret.input.rows[i][c] = NaN

\* the tracker constructed over a Wise file without Direction and with a
\* column Note and a Revolut file with the export's header
C18_Witness ==
    /\ ret.messages = <<"loaded", "loaded">>
    /\ "Note" \in wise_csv.columns /\ "Direction" \notin wise_csv.columns
    /\ "Source name" \in wise_csv.columns
    /\ revolut_csv.columns = revolut_csv_columns
    /\ Len(wise_csv.rows) = 1 /\ Len(revolut_csv.rows) = 1
    /\ ret.input.rows[1].Type = NaN /\ ret.input.rows[1].Balance = NaN
    /\ ret.input.rows[2]["Exchange Rate"] = NaN
    /\ ret.input.rows[2].Type # NaN

\* C19: every row of the processed table has a platform, a category, an
\* amount and a fee; the platform is Wise for the rows of the Wise file and
\* Revolut for the rows of the Revolut file, already in the combined table,
\* and so never "Unknown".
C19_NonNullFields ==
    /\ \A r \in DOMAIN df :
          /\ PlatformOf(df[r]) =
                IF r <= Len(RowsRead(wise_csv)) THEN Str(Wise) ELSE Str(Revolut)
          /\ df[r].Category \in Keys(categories) \cup {Others}
          /\ df[r].Amount.kind = "num"
          /\ df[r].Fee.kind = "num"
    /\ ret.messages # <<>> =>
          \A i \in DOMAIN ret.input.rows :
              PlatformOf(ret.input.rows[i]) \in {Str(Wise), Str(Revolut)}

\* the processed table of a Wise file whose own Source Platform column
\* holds other text and whose fee is missing, next to a Revolut row
C19_Witness ==
    /\ ret.op = "process"
    /\ "Source Platform" \in wise_csv.columns
    /\ Len(wise_csv.rows) = 1 /\ Len(revolut_csv.rows) = 1
    /\ wise_csv.rows[1]["Source Platform"] = Str(TextR)
    /\ wise_csv.rows[1]["Source fee amount"] = NaN
    /\ wise_csv.rows[1]["Source amount (after fees)"] = NaN
    /\ PlatformOf(df[1]) = Str(Wise) /\ PlatformOf(df[2]) = Str(Revolut)
    /\ df[1].Fee = Num(0) /\ df[1].Amount = Num(0)

C16_SchemaError ==
    /\ [](/\ ret.op = "net" =>
                LET missing == {"Year_Month", "Amount in EUR", "Type"} \ df_columns
                IN  IF missing # {}
                    THEN ret.missing = missing /\ ret.net = <<>>
                    ELSE ret.missing = {} /\ ret.net = net_amount_per_month(df)
          /\ ret.op = "pivots" =>
                LET missing == {"Year_Month", "Amount in EUR", "Type", "Category"} \ df_columns
                IN  IF missing # {}
                    THEN /\ ret.missing = missing
                         /\ ret.pivots = [expenses |-> EmptyPivot, incomes |-> EmptyPivot,
                                          net |-> EmptyPivot]
                    ELSE /\ ret.missing = {}
                         /\ ret.pivots = expenses_per_category_per_month(df))
    /\ [][ret'.op \in {"net", "pivots"} => df' = df /\ df_columns' = df_columns]_vars

\* the pivot query has reported the missing column Category on a table of
\* two records that has the columns of the net query
C16_Witness ==
    /\ ret.op = "pivots"
    /\ ret.missing = {"Category"}
    /\ {"Year_Month", "Amount in EUR", "Type"} \subseteq df_columns
    /\ Len(df) = 2

(***************************************************************************)
(* Properties of the editor.                                               *)
(***************************************************************************)
\* the table with the category of every record replaced by x
WithCategory(table, x) == [i \in DOMAIN table |-> [table[i] EXCEPT !.Category = x]]

\* C22: after every process pass the category of each record is
\* categorize_expense of its description under the store of that moment, so
\* two records with the same description have the same category; the pass
\* gives the same table whatever category the records had before, a
\* category set by hand in the editor included, and however many passes ran.
C22_CategoryRederived ==
    /\ [](ret.op = "process" =>
             /\ \A r \in DOMAIN df :
                   df[r].Category = categorize_expense(categories, df[r].Description.text)
             /\ \A r, q \in DOMAIN df :
                   df[r].Description = df[q].Description => df[r].Category = df[q].Category)
    /\ [][ret'.op = "process" =>
             \A x \in Keys(categories) \cup {Others, <<>>} :
                 df' = process_data(WithCategory(df, x), categories')]_vars

\* process_data has run on a table in which the editor had set by hand a
\* category that the description of the record does not give, after an
\* earlier pass, and has replaced it
C22_Witness ==
    /\ ret.op = "process"
    /\ "Category" \in ret.input.columns
    /\ \E r \in DOMAIN df :
          /\ ret.input.rows[r].Category \in Keys(categories)
          /\ ret.input.rows[r].Category #
                categorize_expense(categories, ret.input.rows[r].Description.text)
          /\ df[r].Category = Others
    /\ \E r \in DOMAIN df : df[r].Category \in Keys(categories)

\* the records of a platform in the table, over the columns of a file
RecordsInFile(table, platform, file) ==
    LET rows == SelectSeq(table, LAMBDA r : r["Source Platform"] = Str(platform))
    IN  [i \in DOMAIN rows |-> [c \in file.columns |-> rows[i][c]]]

\* C24, as claimed: when the save-changes operation has run, the table holds
\* the edit, the two source files hold the records of their platform over
\* unified columns only, without the derived ones, and the table is the one
\* a process pass leaves: the amount in EUR is the amount and the category
\* is the one of the description.
C24_SaveChangesConsistent ==
    ret.op = "save_changes" =>
        /\ wise_csv.columns \subseteq unified_columns
        /\ revolut_csv.columns \subseteq unified_columns
        /\ wise_csv.rows = RecordsInFile(df, Wise, wise_csv)
        /\ revolut_csv.rows = RecordsInFile(df, Revolut, revolut_csv)
        /\ df = process_data(df, categories)
        /\ \A r \in DOMAIN df :
              /\ df[r]["Amount in EUR"] = df[r].Amount
              /\ df[r].Category = categorize_expense(categories, df[r].Description.text)

\* the save-changes operation has run with the amount of a Wise record
\* edited from 5 to 9: the handler reported the columns Fee Currency and
\* Source, the table holds the amount 9 next to the amount in EUR 5, and the
\* Wise file still holds the amount 5 under the header of the export
C24_Witness ==
    /\ ret.op = "save_changes"
    /\ ret.missing = {"Fee Currency", "Source"}
    /\ \E r \in DOMAIN df :
          /\ ret.input.rows[r].Amount = Num(5)
          /\ df[r].Amount = Num(9)
          /\ df[r]["Amount in EUR"] = Num(5)
    /\ wise_csv.columns = wise_csv_columns
    /\ \E i \in DOMAIN wise_csv.rows : wise_csv.rows[i]["Source amount (after fees)"] = Num(5)

(***************************************************************************)
(* Properties of the add-category form.                                    *)
(***************************************************************************)
\* the record carries the category that its description gives under the store
ClassifiedUnder(r, store) ==
    df[r].Category = categorize_expense(store, df[r].Description.text)

WiseKey(r) ==
    IF \E i \in 0..(Len(r["ID"].text) - 8) : SubSeq(r["ID"].text, i + 1, i + 8) = TRANSFER
    THEN r["Reference"].text
    ELSE r["Target name"].text

\* C23: in the Wise tracker the category of a record whose ID contains
\* "TRANSFER" is the first category, in mapping order, with a keyword that
\* is a case-insensitive substring of its Reference, the category of any
\* other record is the first such category for its Target name, and it is
\* the sentinel "Otros" when no keyword of any category occurs.
C23_WiseTransferByReference ==
    ret.op = "WiseTracker" =>
        \A r \in DOMAIN df :
            LET d == WiseKey(df[r])
            IN  IF \E j \in DOMAIN categories : CategoryHits(j, d)
                THEN \E j \in DOMAIN categories :
                        /\ CategoryHits(j, d)
                        /\ \A h \in 1..(j - 1) : ~CategoryHits(h, d)
                        /\ df[r]["Categoría"] = categories[j].name
                ELSE df[r]["Categoría"] = Otros

\* a transfer whose target name is hit by the first category carries the
\* second, which hits its reference, next to a record with a lower-case
\* "transfer" in its ID that carries the category of its target name
C23_Witness ==
    /\ ret.op = "WiseTracker"
    /\ Len(categories) = 2
    /\ \E r \in DOMAIN df :
          /\ df[r]["ID"].text = TextTransfer1
          /\ CategoryHits(1, df[r]["Target name"].text)
          /\ ~CategoryHits(1, df[r]["Reference"].text)
          /\ CategoryHits(2, df[r]["Reference"].text)
          /\ df[r]["Categoría"] = categories[2].name
    /\ \E r \in DOMAIN df :
          /\ df[r]["ID"].text = TextLowerTransfer1
          /\ CategoryHits(2, df[r]["Reference"].text)
          /\ df[r]["Categoría"] = categories[1].name

\* C25: neither single-platform tracker raises in its constructor or in a
\* process pass, whatever the source file holds, and after a process pass
\* the amount of every record and its normalized amount are numbers, 0
\* where the source cell was missing or did not parse.
C25_VariantsKeepNormalizerContract ==
    /\ ret.op \notin {"WiseTracker raised", "RevolutTracker raised"}
    /\ ret.op = "WiseTracker" =>
          \A r \in DOMAIN df :
              /\ df[r]["Source amount (after fees)"].kind = "num"
              /\ df[r]["Amount in EUR"].kind = "num"
              /\ ToNumeric(wise_csv.rows[r]["Source amount (after fees)"]).kind # "num"
                    => df[r]["Amount in EUR"] = Num(0)
    /\ ret.op = "RevolutTracker" =>
          \A r \in DOMAIN df :
              /\ df[r].Amount.kind = "num"
              /\ df[r]["Amount in EUR"].kind = "num"
              /\ ToNumeric(revolut_csv.rows[r].Amount).kind # "num"
                    => df[r]["Amount in EUR"] = Num(0)

\* the Wise tracker after its process pass over a record whose amount is
\* the text "abc": the text is the amount and the normalized amount
C25_Witness ==
    /\ ret.op = "WiseTracker"
    /\ \E r \in DOMAIN df :
          /\ wise_csv.rows[r]["Source amount (after fees)"] = Str(TextAbc)
          /\ df[r]["Source amount (after fees)"] = Str(TextAbc)
          /\ df[r]["Amount in EUR"] = Str(TextAbc)

(***************************************************************************)
(* Frame properties of the queries, the export and the process pass.       *)
(***************************************************************************)
\* the cells of a record that a process pass over a processed table keeps
SourceCells(r) ==
    [c \in {"Transaction ID", "Source Platform", "Type", "Description", "Amount",
            "Completed Date"} |-> r[c]]

\* C26: a step of net_amount_per_month, expenses_per_category_per_month or
\* save_monthly_data leaves the table, its columns and the store, in memory
\* and on disk, as they were; a process pass on its own, which categorizes
\* every record, leaves the store as it was; and every process pass leaves
\* the table with the same number of records, each at its position.
C26_QueriesReadOnly ==
    [][ /\ ret'.op \in {"net", "pivots", "export"} =>
              /\ df' = df
              /\ df_columns' = df_columns
              /\ categories' = categories
              /\ categoriesFile' = categoriesFile
        /\ (ret'.op = "process" /\ ret'.input = [columns |-> df_columns, rows |-> df]) =>
              /\ categories' = categories
              /\ categoriesFile' = categoriesFile
        /\ ret'.op = "process" =>
              /\ Len(df') = Len(df)
              /\ \A i \in DOMAIN df : SourceCells(df'[i]) = SourceCells(df[i]) ]_vars

\* the net series over a table of two different records, one of them of no
\* recognised type, both still in the table
C26_Witness ==
    /\ ret.op = "net"
    /\ ret.net # <<>>
    /\ Len(df) = 2
    /\ SourceCells(df[1]) # SourceCells(df[2])
    /\ \E i \in DOMAIN df : ~TypeIsIn(df[i], income_types \cup expense_types)

(***************************************************************************)
(* Properties of the records without a month.                              *)
(***************************************************************************)
\* the table without the records whose month is null
WithoutNullMonth(table) == SelectSeq(table, LAMBDA r : r.Year_Month.kind = "period")

\* C27: every step leaves the records whose month is null in the table, at
\* their positions and with a null month; the net series, the three pivots
\* and the files written by the export are those of the table without these
\* records, no written file holds such a record, and neither query raises.
C27_NullMonthInNoGroup ==
    [][ /\ Len(df') = Len(df)
        /\ \A i \in DOMAIN df :
              df[i].Year_Month.kind # "period" => df'[i].Year_Month.kind # "period"
        /\ ret'.op \in {"net", "pivots"} => ret'.missing = {}
        /\ ret'.op = "net" => ret'.net = net_amount_per_month(WithoutNullMonth(df))
        /\ ret'.op = "pivots" =>
              ret'.pivots = expenses_per_category_per_month(WithoutNullMonth(df))
        /\ ret'.op = "export" =>
              /\ files' = save_monthly_data(files, WithoutNullMonth(df))
              /\ \A f \in DOMAIN files' : \A k \in DOMAIN files'[f] :
                    files'[f][k].Year_Month.kind = "period" ]_vars

\* after the export of a table holding a payment of -20 without a month
\* next to a record of January: one file, holding the January record only
C27_Witness ==
    /\ ret.op = "export"
    /\ Len(df) = 2
    /\ \E i \in DOMAIN df :
          /\ df[i].Year_Month = NaT
          /\ df[i]["Amount in EUR"] = Num(0 - 20)
          /\ TypeIsIn(df[i], expense_types)
    /\ DOMAIN files = {FileName(Period(202401))}
    /\ Len(files[FileName(Period(202401))]) = 1

(***************************************************************************)
(* Properties of the start-up.                                             *)
(***************************************************************************)
\* C28: whatever the two source files and the category file hold, the
\* constructor of the unified tracker does not raise, the table it leaves
\* has the columns Year_Month, Amount in EUR, Type and Category, and
\* neither query called afterwards reports a missing column.
C28_ConstructionNeverRaises ==
    /\ ret.op # "FinanceTracker raised"
    /\ {"Year_Month", "Amount in EUR", "Type", "Category"} \subseteq df_columns
    /\ ret.op \in {"net", "pivots"} => ret.missing = {}

\* the constructor raised over a category file that is not UTF-8, with
\* both source files in place
C28_Witness ==
    /\ ret.op = "FinanceTracker raised"
    /\ categoriesFile = UndecodableFile
    /\ wise_csv.status = "ok" /\ wise_csv.rows # <<>>
    /\ revolut_csv.status = "ok"
    /\ df_columns = {}

====
